---- MODULE Spec2Model ----
(***************************************************************************)
(* A model of siyuan-ai-companion: the vector index kept by RagDriver,     *)
(* the periodic index sweep (update_index) with its last_update cursor,    *)
(* the OpenAI-compatible request handlers and the request forwarder.       *)
(*                                                                         *)
(* Text is modelled as a sequence of atoms (an atom is a literal piece     *)
(* such as "Question: " or "\n", or an opaque word), so that joining and   *)
(* splitting are computed, not assumed.                                    *)
(***************************************************************************)
EXTENDS Integers, Sequences, FiniteSets, TLC

VARIABLES
    \* ---- the vector store (qdrant collection) behind RagDriver
    points,         \* the points of the collection: a set of PointStruct records
    collection,     \* the collection as qdrant holds it: {} (none) or {its VectorParams}
    written,        \* history: per block id, the payloads ({} or one) of its latest write since it was last deleted
    nwrites,        \* history: per block id, how many writes carried it since it was last deleted (capped)
    lastOp,         \* history: the name of the last RagDriver operation
    \* ---- the index sweep (tasks.update_index), its scheduler and its world
    clock,          \* wall-clock time in whole epoch seconds
    cursor,         \* the file last_update: {} (no file) or {n}, n its content
    kb,             \* the blocks table of the notes server: block id -> row
    pc,             \* per sweep task: where its coroutine stands
    last_update,    \* per sweep task: the local last_update (line 20/22)
    current_time,   \* per sweep task: the local current_time (line 26), in epoch seconds
    block_count,    \* per sweep task: SiyuanApi._block_count of its client, {} (None) or {n}
    err,            \* per sweep task: where the last run of the task raised
    sweep_blocks,   \* per sweep task: the rows its SELECT returned
    started,        \* startup() has run scheduler.start()
    lastFire,       \* the clock value at which the scheduler was started or last fired
    force_update_index, \* APP_CONFIG.force_update_index
    \* ---- RagDriver.build_prompt
    prompt_args,    \* a build_prompt call: [query, hits, contexts], hits whether the search finds any, contexts what get_context returns
    prompt_pc,      \* where the call stands: "start", "fetching" (in get_context's gather), "done"
    prompt_result,  \* {} before the call returns, then {the prompt}
    \* ---- the RAG chat-completion handler
    chat_request,   \* a request: [payload, prior, hits, contexts, upstream], what it meets included
    chat_pc,        \* where the handler stands: "start", "fetching", "forwarding", "done"
    chat_result,    \* {} while the request is not handled, then {what the handler did}
    \* ---- views.utils.token_required
    companion_token,    \* APP_CONFIG.companion_token: {} (None) or {token}
    auth_request,       \* a request: [endpoint, header], header {} or {the Authorization value}
    auth_response,      \* {} while the request is not answered, then {[status, handler_ran]}
    \* ---- views.utils.forward_request
    openai_token,       \* APP_CONFIG.openai_token: {} (None) or {token}
    fwd_request,        \* the call: [headers, payload, method], headers the caller's
    fwd_mode,           \* where the call stands
    upstream_request,   \* {} or {the request sent upstream}
    content_type,       \* the content type of the Response returned ({}: none yet)
    sent,               \* the chunks the upstream has emitted so far
    upstream_closed,    \* the upstream has ended its response
    received,           \* the chunks the client has received so far
    elapsed,            \* seconds since the upstream request was sent (for a stream: since the body began to be sent)
    \* ---- RagDriver._segment_document
    seg_args,           \* a call: [document, matching_blocks, counter, max_segment_tokens]
    seg_call,           \* the invocation a walk down the recursion stands in
    seg_depth,          \* how many recursive calls deep that invocation is
    seg_result,         \* {} before the call returns, then {[raised, segments]}
    \* ---- RagDriver.get_context
    ctx_args,           \* a call: [search_results, notes, limit], notes what the notes server holds
    ctx_pc,             \* where the call stands: "start", "fetching" (at the gather), "done"
    ctx_result,         \* {} before the call returns, then {[raised, segments]}
    ctx_calls,          \* history: {} before the search, then {[fetched, completed, segmenter, segments]}
    \* ---- the handlers of views.openai that take a payload
    handler_request,    \* a request: [handler, payload, prior, outcome, upstream], what it meets included
    handler_pc,         \* where the handler stands: "start", "fetching", "forwarding", "done"
    handler_result,     \* {} while the request is not answered, then {[run, response]}
    \* ---- RagDriver.selected_model and the tokenizers (class attributes)
    selected_model,         \* RagDriver._selected_model: {} (None) or {name}
    openai_tokenizer,       \* RagDriver._openai_tokenizer: {} (None) or {encoding}
    huggingface_tokenizer,  \* RagDriver._huggingface_tokenizer: {} (None) or {the name loaded}
    encodings,              \* the encodings tiktoken has built and keeps
    constructed,            \* history: per model name, how many tokenizers were built for it
    reselected,             \* history: the selected name was assigned again
    \* ---- RagDriver._fallback_split
    split_args,             \* a call: [document, counter, max_segment_tokens]
    split_result,           \* {} before the call returns, then {the list returned}
    \* ---- two RAG requests handled concurrently
    requests,               \* per request: [model, pc, counted_with], counted_with {} or {the tokenizer used}
    \* ---- Transcriber.process_asset
    processing_assets,      \* SiyuanApi._processing_assets
    runs                    \* per process_asset task: [asset, notebook, pc, added]

indexVars == <<points, collection, written, nwrites, lastOp>>
sweepVars == <<clock, cursor, kb, pc, last_update, current_time, block_count, sweep_blocks, err,
              started, lastFire, force_update_index>>
promptVars == <<prompt_args, prompt_pc, prompt_result>>
chatVars == <<chat_request, chat_pc, chat_result>>
authVars == <<companion_token, auth_request, auth_response>>
fwdVars == <<openai_token, fwd_request, fwd_mode, upstream_request, content_type,
             sent, upstream_closed, received, elapsed>>
segVars == <<seg_args, seg_call, seg_depth, seg_result>>
ctxVars == <<ctx_args, ctx_pc, ctx_result, ctx_calls>>
handlerVars == <<handler_request, handler_pc, handler_result>>
tokVars == <<selected_model, openai_tokenizer, huggingface_tokenizer, encodings, constructed,
            reselected>>
splitVars == <<split_args, split_result>>
reqVars == <<requests>>
assetVars == <<processing_assets, runs>>
moreVars == <<splitVars, reqVars, assetVars>>
ragVars == <<segVars, ctxVars, handlerVars, tokVars, moreVars>>
proxyVars == <<promptVars, chatVars, authVars, fwdVars, ragVars>>
vars == <<indexVars, sweepVars, proxyVars>>

None == "none"

\* ------------------------------------------------------------------ bounds
BlockIds == {"A", "B"}
DocumentIds == {"D1", "D2"}
Contents == {"hello", "world", "updated"}
MaxBatch == 2
MaxWrites == 2

\* ------------------------------------------------------------------ RagDriver: the index

\* int.from_bytes(hashlib.md5(note_id.encode()).digest()[:8], 'big'), kept as
\* its 8 bytes, most significant first (the value does not fit TLC's integers).
HashId(note_id) ==
    CASE note_id = "A" -> <<127, 197, 98, 112, 231, 167, 15, 168>>
      [] note_id = "B" -> <<157, 94, 214, 120, 254, 87, 188, 202>>
      [] note_id = "C" -> <<13, 97, 248, 55, 12, 173, 29, 65>>

\* transformer.encode(sentences=text, normalize_embeddings=True).tolist():
\* a deterministic function of the text alone.
Encode(text) == [model |-> "all-MiniLM-L6-v2", text |-> text]

\* VectorParams(size=transformer.get_sentence_embedding_dimension(),
\* distance=Distance.COSINE): the dimension is the one of the embedder
VectorParams == [size |-> [dimension_of |-> "all-MiniLM-L6-v2"], distance |-> "Cosine"]

\* A plausible bug: the collection is not created.
create_collection_skipped == {}

\* client.create_collection(collection_name, vectors_config): what qdrant holds then
create_collection == {VectorParams}

\* RagDriver.__init__, lines 47-56: the collection is created unless it exists
RagDriver(existing) == IF existing = {} THEN create_collection ELSE existing

PointStruct(block_id, document_id, block_content) ==
    [id |-> HashId(block_id),
     vector |-> Encode(block_content),
     payload |-> [blockId |-> block_id,
                  documentId |-> document_id,
                  content |-> block_content]]

\* A plausible bug: the store appends the point instead of replacing the
\* point that has the same id.
UpsertPointAppend(store, p) == store \cup {p}

\* client.upsert of one point: insert, or replace the point with the same id.
UpsertPoint(store, p) == {q \in store : q.id # p.id} \cup {p}

\* client.upsert(points=[...]): the points are applied in list order.
RECURSIVE Upsert(_, _)
Upsert(store, pts) ==
    IF pts = <<>> THEN store
    ELSE Upsert(UpsertPoint(store, Head(pts)), Tail(pts))

\* The (block_id, block_content, document_id) tuples add_blocks accepts.
BlockTuples == BlockIds \X Contents \X DocumentIds
Batches == UNION {[1..n -> BlockTuples] : n \in 1..MaxBatch}

\* add_blocks builds one point per tuple, in order.
BatchPoints(blocks) ==
    [i \in 1..Len(blocks) |-> PointStruct(blocks[i][1], blocks[i][3], blocks[i][2])]

\* history: the latest write per block id after a batch
RECURSIVE NoteWrites(_, _)
NoteWrites(w, blocks) ==
    IF blocks = <<>> THEN w
    ELSE NoteWrites([w EXCEPT ![Head(blocks)[1]] =
                        {[blockId |-> Head(blocks)[1],
                          documentId |-> Head(blocks)[3],
                          content |-> Head(blocks)[2]]}],
                    Tail(blocks))

\* history: the number of writes per block id after a batch
RECURSIVE CountWrites(_, _)
CountWrites(n, blocks) ==
    IF blocks = <<>> THEN n
    ELSE CountWrites([n EXCEPT ![Head(blocks)[1]] =
                        IF @ < MaxWrites THEN @ + 1 ELSE @],
                     Tail(blocks))

add_block(block_id, document_id, block_content) ==
    /\ points' = Upsert(points, <<PointStruct(block_id, document_id, block_content)>>)
    /\ written' = NoteWrites(written, <<<<block_id, block_content, document_id>>>>)
    /\ nwrites' = CountWrites(nwrites, <<<<block_id, block_content, document_id>>>>)

add_blocks(blocks) ==
    /\ points' = Upsert(points, BatchPoints(blocks))
    /\ written' = NoteWrites(written, blocks)
    /\ nwrites' = CountWrites(nwrites, blocks)

update_block(block_id, document_id, block_content) ==
    add_block(block_id, document_id, block_content)

update_blocks(blocks) == add_blocks(blocks)

delete_block(block_id) ==
    /\ points' = {q \in points : q.id # HashId(block_id)}
    /\ written' = [written EXCEPT ![block_id] = {}]
    /\ nwrites' = [nwrites EXCEPT ![block_id] = 0]

\* delete_collection drops the collection with its points, create_collection
\* makes it anew
delete_all ==
    /\ points' = {}
    /\ collection' = create_collection
    /\ written' = [b \in BlockIds |-> {}]
    /\ nwrites' = [b \in BlockIds |-> 0]

IndexInit ==
    /\ points = {}
    /\ collection = {}
    /\ written = [b \in BlockIds |-> {}]
    /\ nwrites = [b \in BlockIds |-> 0]
    /\ lastOp = "init"

\* ---- the operations as actions of the index specification; a method runs
\* on an instance, so after a construction
Construct ==
    /\ collection' = RagDriver(collection)
    /\ lastOp' = "construct"
    /\ UNCHANGED <<points, written, nwrites, sweepVars, proxyVars>>

\* search (lines 491-525) queries the collection and changes nothing
Search ==
    /\ lastOp # "init"
    /\ lastOp' = "search"
    /\ UNCHANGED <<points, collection, written, nwrites, sweepVars, proxyVars>>

AddBlock ==
    \E b \in BlockIds, d \in DocumentIds, c \in Contents :
        /\ lastOp # "init"
        /\ add_block(b, d, c)
        /\ UNCHANGED collection
        /\ lastOp' = "add_block"
        /\ UNCHANGED <<sweepVars, proxyVars>>

AddBlocks ==
    \E blocks \in Batches :
        /\ lastOp # "init"
        /\ add_blocks(blocks)
        /\ UNCHANGED collection
        /\ lastOp' = "add_blocks"
        /\ UNCHANGED <<sweepVars, proxyVars>>

UpdateBlock ==
    \E b \in BlockIds, d \in DocumentIds, c \in Contents :
        /\ lastOp # "init"
        /\ update_block(b, d, c)
        /\ UNCHANGED collection
        /\ lastOp' = "update_block"
        /\ UNCHANGED <<sweepVars, proxyVars>>

UpdateBlocks ==
    \E blocks \in Batches :
        /\ lastOp # "init"
        /\ update_blocks(blocks)
        /\ UNCHANGED collection
        /\ lastOp' = "update_blocks"
        /\ UNCHANGED <<sweepVars, proxyVars>>

DeleteBlock ==
    \E b \in BlockIds :
        /\ lastOp # "init"
        /\ delete_block(b)
        /\ UNCHANGED collection
        /\ lastOp' = "delete_block"
        /\ UNCHANGED <<sweepVars, proxyVars>>

DeleteAll ==
    /\ lastOp # "init"
    /\ delete_all
    /\ lastOp' = "delete_all"
    /\ UNCHANGED <<sweepVars, proxyVars>>

\* ------------------------------------------------------------------ the sweep: tasks.update_index

\* The two callers of update_index: startup() awaits it once, the scheduler's
\* interval job runs it again and again.
Sweeps == {"startup", "job"}

MaxClock == 3
RowContents == {"v1", "v2"}
RootId(b) == IF b = "A" THEN "D1" ELSE "D2"

\* datetime.fromtimestamp(t).strftime("%Y%m%d%H%M%S") for a time of the first
\* day of the epoch (UTC): the fields of the 14-digit text, most significant first.
Strftime(t) == <<1970, 1, 1, t \div 3600, (t \div 60) % 60, t % 60>>

\* SQL text comparison a > b of two 14-digit timestamps: lexicographic.
RECURSIVE TextGreater(_, _)
TextGreater(a, b) ==
    IF a = <<>> \/ b = <<>> THEN a # <<>>
    ELSE IF Head(a) # Head(b) THEN Head(a) > Head(b)
    ELSE TextGreater(Tail(a), Tail(b))

\* open('last_update') / int(f.read()), FileNotFoundError -> 0
ReadCursor(file) == IF file = {} THEN 0 ELSE CHOOSE n \in file : TRUE

\* a row of the blocks table as the handler uses it: (id, content, root_id)
RowOf(b) == <<b, kb[b].content, kb[b].root_id>>

\* SELECT COUNT(*) FROM blocks
CountBlocks == Cardinality(DOMAIN kb)

\* SELECT * FROM blocks WHERE updated > '<since>': the matching block ids
UpdatedAfter(since) == {b \in DOMAIN kb : TextGreater(kb[b].updated, Strftime(since))}

\* ... LIMIT <n>: every possible answer, each a set of at most n matching rows
\* (all of them when n allows).
SelectAnswers(since, n) ==
    LET m == UpdatedAfter(since)
    IN  IF Cardinality(m) <= n THEN {m}
        ELSE {r \in SUBSET m : Cardinality(r) = n}

RECURSIVE SetToSeq(_)
SetToSeq(S) ==
    IF S = {} THEN <<>>
    ELSE LET x == CHOOSE y \in S : TRUE IN <<x>> \o SetToSeq(S \ {x})

\* The event loop runs one coroutine at a time: between two awaits a sweep is
\* not interleaved with another task.  A sweep is in such a stretch from the
\* return of its SELECT to the end of the cursor write.
InSync(s) == pc[s] \in {"embed", "write"}
LoopFree(s) == \A o \in Sweeps \ {s} : ~InSync(o)

\* lines 18-26, then get_blocks_by_time up to its first request (get_count,
\* the client being new): read the cursor, take the time, send the COUNT.
BeginSweep(s, file) ==
    /\ last_update' = [last_update EXCEPT ![s] = ReadCursor(file)]
    /\ current_time' = [current_time EXCEPT ![s] = clock]
    /\ block_count' = [block_count EXCEPT ![s] = {}]
    /\ sweep_blocks' = [sweep_blocks EXCEPT ![s] = {}]
    /\ err' = [err EXCEPT ![s] = "none"]
    /\ pc' = [pc EXCEPT ![s] = "count"]

\* app.startup: scheduler.start(), the force_update_index removal, then
\* await update_index() which runs to its first await.
Startup ==
    /\ ~started
    /\ started' = TRUE
    /\ lastFire' = clock
    /\ cursor' = IF force_update_index THEN {} ELSE cursor
    /\ BeginSweep("startup", cursor')
    /\ UNCHANGED <<clock, kb, force_update_index, indexVars, proxyVars>>

\* The interval job fires: one instance at a time (the scheduler's
\* max_instances is 1), some time after the scheduler started or last fired.
FireJob ==
    /\ started
    /\ pc["job"] = "idle"
    /\ clock > lastFire
    /\ LoopFree("job")
    /\ lastFire' = clock
    /\ BeginSweep("job", cursor)
    /\ UNCHANGED <<clock, cursor, kb, started, force_update_index, indexVars, proxyVars>>

\* get_count returns: _block_count is set (siyuan_api.py 271-279)
CountReturns(s) ==
    /\ pc[s] = "count"
    /\ LoopFree(s)
    /\ block_count' = [block_count EXCEPT ![s] = {CountBlocks}]
    /\ pc' = [pc EXCEPT ![s] = "select"]
    /\ UNCHANGED <<clock, cursor, kb, last_update, current_time, sweep_blocks, err,
                   started, lastFire, force_update_index, indexVars, proxyVars>>

\* a notes request raises SiYuanApiError: the exception leaves update_index
\* through the async with, which closes the client.
QueryFails(s) ==
    /\ pc[s] \in {"count", "select"}
    /\ LoopFree(s)
    /\ err' = [err EXCEPT ![s] = pc[s]]
    /\ pc' = [pc EXCEPT ![s] = "closing_err"]
    /\ UNCHANGED <<clock, cursor, kb, last_update, current_time, block_count, sweep_blocks,
                   started, lastFire, force_update_index, indexVars, proxyVars>>

\* the SELECT returns (lines 28-43): with rows, the sweep goes on to
\* update_blocks; with none, it leaves the async with at once.
SelectReturns(s) ==
    /\ pc[s] = "select"
    /\ LoopFree(s)
    /\ \E n \in block_count[s] :
       \E answer \in SelectAnswers(last_update[s], n) :
            /\ sweep_blocks' = [sweep_blocks EXCEPT ![s] = {RowOf(b) : b \in answer}]
            /\ pc' = [pc EXCEPT ![s] = IF answer = {} THEN "closing" ELSE "embed"]
    /\ UNCHANGED <<clock, cursor, kb, last_update, current_time, block_count, err,
                   started, lastFire, force_update_index, indexVars, proxyVars>>

\* A plausible bug: the cursor is written before the batch is embedded and
\* upserted, so a failure leaves it advanced.
UpdateBlocksFailsCursorFirst(s) ==
    /\ pc[s] = "embed"
    /\ \E e \in {"embed", "upsert"} : err' = [err EXCEPT ![s] = e]
    /\ pc' = [pc EXCEPT ![s] = "closing_err"]
    /\ cursor' = {current_time[s]}
    /\ collection' = RagDriver(collection)
    /\ UNCHANGED <<clock, kb, last_update, current_time, block_count, sweep_blocks,
                   started, lastFire, force_update_index, points, written, nwrites, lastOp,
                   proxyVars>>

\* lines 44-48 raise: the embedding or the upsert fails, nothing is stored
UpdateBlocksFails(s) ==
    /\ pc[s] = "embed"
    /\ \E e \in {"embed", "upsert"} : err' = [err EXCEPT ![s] = e]
    /\ pc' = [pc EXCEPT ![s] = "closing_err"]
    /\ collection' = RagDriver(collection)
    /\ UNCHANGED <<clock, cursor, kb, last_update, current_time, block_count, sweep_blocks,
                   started, lastFire, force_update_index, points, written, nwrites, lastOp,
                   proxyVars>>

\* lines 44-48 return: a driver is constructed, then one batched upsert of every row
UpdateBlocksReturns(s) ==
    /\ pc[s] = "embed"
    /\ collection' = RagDriver(collection)
    /\ update_blocks(SetToSeq(sweep_blocks[s]))
    /\ lastOp' = "update_blocks"
    /\ pc' = [pc EXCEPT ![s] = "write"]
    /\ UNCHANGED <<clock, cursor, kb, last_update, current_time, block_count, sweep_blocks, err,
                   started, lastFire, force_update_index, proxyVars>>

\* lines 50-51: f.write(str(int(current_time.timestamp())))
WriteCursor(s) ==
    /\ pc[s] = "write"
    /\ cursor' = {current_time[s]}
    /\ pc' = [pc EXCEPT ![s] = "closing"]
    /\ UNCHANGED <<clock, kb, last_update, current_time, block_count, sweep_blocks, err,
                   started, lastFire, force_update_index, indexVars, proxyVars>>

\* __aexit__: await self.close() returns and update_index ends; the job's
\* task is free to fire again, with or without an exception logged.
SweepEnds(s) ==
    /\ pc[s] \in {"closing", "closing_err"}
    /\ LoopFree(s)
    /\ pc' = [pc EXCEPT ![s] =
                IF s = "job" THEN "idle"
                ELSE IF pc[s] = "closing" THEN "done" ELSE "failed"]
    \* the coroutine's locals and its client are gone
    /\ last_update' = [last_update EXCEPT ![s] = 0]
    /\ current_time' = [current_time EXCEPT ![s] = 0]
    /\ block_count' = [block_count EXCEPT ![s] = {}]
    /\ sweep_blocks' = [sweep_blocks EXCEPT ![s] = {}]
    /\ UNCHANGED <<clock, cursor, kb, err, started, lastFire, force_update_index, indexVars, proxyVars>>

\* ---- the world around the sweep
Tick ==
    /\ clock < MaxClock
    /\ clock' = clock + 1
    /\ UNCHANGED <<cursor, kb, pc, last_update, current_time, block_count, sweep_blocks, err,
                   started, lastFire, force_update_index, indexVars, proxyVars>>

\* the user edits a block in SiYuan: new content, updated = now
EditBlock ==
    \E b \in DOMAIN kb, c \in RowContents :
        /\ c # kb[b].content
        /\ kb' = [kb EXCEPT ![b] = [content |-> c, updated |-> Strftime(clock),
                                    root_id |-> kb[b].root_id]]
        /\ UNCHANGED <<clock, cursor, pc, last_update, current_time, block_count, sweep_blocks,
                       err, started, lastFire, force_update_index, indexVars, proxyVars>>

\* the user creates a block in SiYuan
CreateBlock ==
    \E b \in BlockIds \ DOMAIN kb :
        /\ kb' = kb @@ (b :> [content |-> "v1", updated |-> Strftime(clock),
                              root_id |-> RootId(b)])
        /\ UNCHANGED <<clock, cursor, pc, last_update, current_time, block_count, sweep_blocks,
                       err, started, lastFire, force_update_index, indexVars, proxyVars>>

\* the sweep variables of a process that runs no sweep
SweepIdle ==
    /\ clock = 2
    /\ cursor = {}
    /\ kb = <<>>
    /\ pc = [s \in Sweeps |-> "idle"]
    /\ last_update = [s \in Sweeps |-> 0]
    /\ current_time = [s \in Sweeps |-> 0]
    /\ block_count = [s \in Sweeps |-> {}]
    /\ sweep_blocks = [s \in Sweeps |-> {}]
    /\ err = [s \in Sweeps |-> "none"]
    /\ started = FALSE
    /\ lastFire = 0
    /\ force_update_index = FALSE

\* The process starts at second 2.  Block A was last updated in second 1.
\* Either no sweep ever ran (no cursor file, empty collection), or an earlier
\* run of the program indexed A in second 1 and left the cursor there.
SweepInit ==
    /\ clock = 2
    /\ kb = ("A" :> [content |-> "v1", updated |-> Strftime(1), root_id |-> RootId("A")])
    /\ \/ cursor = {} /\ points = {} /\ collection = {}
       \/ /\ cursor = {1}
          /\ points = {PointStruct("A", RootId("A"), "v1")}
          /\ collection = create_collection
    /\ written = [b \in BlockIds |-> {}]
    /\ nwrites = [b \in BlockIds |-> 0]
    /\ lastOp = "init"
    /\ pc = [s \in Sweeps |-> "idle"]
    /\ last_update = [s \in Sweeps |-> 0]
    /\ current_time = [s \in Sweeps |-> 0]
    /\ block_count = [s \in Sweeps |-> {}]
    /\ sweep_blocks = [s \in Sweeps |-> {}]
    /\ err = [s \in Sweeps |-> "none"]
    /\ started = FALSE
    /\ lastFire = 0
    /\ force_update_index \in BOOLEAN

\* the index as a request meets it: with hits for the query the collection
\* holds a point; without, it holds none or does not exist yet
IndexMet(hits) ==
    /\ IF hits
       THEN points = {PointStruct("A", RootId("A"), "v1")} /\ collection = create_collection
       ELSE points = {} /\ collection \in {{}, create_collection}
    /\ written = [b \in BlockIds |-> {}]
    /\ nwrites = [b \in BlockIds |-> 0]
    /\ lastOp = "init"

\* ------------------------------------------------------------------ RagDriver.selected_model / RagDriver.tokenizer

MaxConstructions == 2

ModelNames == {"gpt-3.5-turbo", "gpt-4", "gpt-unknown", "bert-base-uncased", "llama3"}
\* model_name.startswith('gpt')
StartsWithGpt(model_name) == model_name \in {"gpt-3.5-turbo", "gpt-4", "gpt-unknown"}
\* the names tiktoken.encoding_for_model maps to an encoding; for another
\* name it raises KeyError
Mapped(model_name) == model_name \in {"gpt-3.5-turbo", "gpt-4"}
\* the names AutoTokenizer.from_pretrained finds; for another name it raises
\* and the setter loads 'bert-base-uncased' instead (lines 93-97)
Recognized(model_name) == model_name = "bert-base-uncased"
Loaded(model_name) == IF Recognized(model_name) THEN model_name ELSE "bert-base-uncased"
\* tiktoken.encoding_for_model: the encoding of a model, built once per
\* encoding by tiktoken's own registry
EncodingOf(model_name) == "cl100k_base"

\* lines 78-99: the setter past its early return, for a name that is not the
\* selected one.  The name is stored first; a construction that raises
\* leaves the tokenizers as they were.
SetSelectedModel(model_name) ==
    /\ selected_model' = {model_name}
    /\ IF StartsWithGpt(model_name)
       THEN IF Mapped(model_name)
            THEN /\ openai_tokenizer' = {EncodingOf(model_name)}
                 /\ encodings' = encodings \cup {EncodingOf(model_name)}
                 /\ constructed' =
                       IF EncodingOf(model_name) \in encodings THEN constructed
                       ELSE [constructed EXCEPT ![model_name] = @ + 1]
                 /\ UNCHANGED huggingface_tokenizer
            ELSE UNCHANGED <<openai_tokenizer, huggingface_tokenizer, encodings, constructed>>
       ELSE /\ huggingface_tokenizer' = {Loaded(model_name)}
            /\ constructed' = [constructed EXCEPT ![model_name] = @ + 1]
            /\ UNCHANGED <<openai_tokenizer, encodings>>

\* lines 68-99: the setter, given a name
SelectModel ==
    \E model_name \in ModelNames :
        /\ {model_name} # selected_model
        /\ constructed[model_name] < MaxConstructions
        /\ SetSelectedModel(model_name)
        /\ reselected' = FALSE
        /\ UNCHANGED <<segVars, ctxVars, handlerVars, moreVars,
                       indexVars, sweepVars, promptVars, chatVars, authVars, fwdVars>>

\* lines 75-77: the name is the selected one, the setter returns at once
SelectSameModel ==
    /\ \E model_name \in ModelNames : {model_name} = selected_model
    /\ reselected' = TRUE
    /\ UNCHANGED <<selected_model, openai_tokenizer, huggingface_tokenizer, encodings,
                   constructed, segVars, ctxVars, handlerVars, moreVars,
                   indexVars, sweepVars, promptVars, chatVars, authVars, fwdVars>>

\* the setter, given None (the payload had neither tokenizerModel nor model)
\* while a name is selected: None is stored, then None.startswith raises
SelectNoModel ==
    /\ selected_model # {}
    /\ selected_model' = {}
    /\ reselected' = FALSE
    /\ UNCHANGED <<openai_tokenizer, huggingface_tokenizer, encodings,
                   constructed, segVars, ctxVars, handlerVars, moreVars,
                   indexVars, sweepVars, promptVars, chatVars, authVars, fwdVars>>

\* lines 58-66: the getter, read while no name is stored, selects the default
SelectDefaultModel ==
    /\ selected_model = {}
    /\ SetSelectedModel("gpt-3.5-turbo")
    /\ reselected' = FALSE
    /\ UNCHANGED <<segVars, ctxVars, handlerVars, moreVars,
                   indexVars, sweepVars, promptVars, chatVars, authVars, fwdVars>>

\* lines 101-114: what the tokenizer property returns ({}: None); read while
\* no name is stored, it has the getter select the default first
tokenizer ==
    IF selected_model = {} THEN {EncodingOf("gpt-3.5-turbo")}
    ELSE IF \E model_name \in selected_model : StartsWithGpt(model_name)
    THEN openai_tokenizer ELSE huggingface_tokenizer

\* `rag_driver.selected_model = value` (lines 68-99), value {} (None) or
\* {name}: the same value returns at once; None is stored, then
\* None.startswith raises; a name is stored, then its tokenizer is built
AssignSelectedModel(value) ==
    /\ IF value = selected_model
       THEN UNCHANGED <<selected_model, openai_tokenizer, huggingface_tokenizer, encodings,
                        constructed>>
       ELSE IF value = {}
       THEN /\ selected_model' = {}
            /\ UNCHANGED <<openai_tokenizer, huggingface_tokenizer, encodings, constructed>>
       ELSE SetSelectedModel(CHOOSE model_name \in value : TRUE)
    /\ reselected' = (value = selected_model)

\* the exception that assignment raises when `selected` is stored ({}: none)
AssignmentError(value, selected) ==
    IF value = selected THEN {}
    ELSE IF value = {} THEN {[error |-> "AttributeError", status_code |-> 500]}
    ELSE IF \E model_name \in value : StartsWithGpt(model_name) /\ ~Mapped(model_name)
    THEN {[error |-> "KeyError", status_code |-> 500]}
    ELSE {}

\* a read of the tokenizer property by _estimate_tokens (lines 101-114, 150):
\* while no name is stored the getter selects the default
ReadTokenizer ==
    IF selected_model = {}
    THEN SetSelectedModel("gpt-3.5-turbo") /\ reselected' = FALSE
    ELSE UNCHANGED tokVars

\* the class attributes after an earlier request selected `value`, a name
\* whose tokenizer can be built ({}: no request did)
TokSelected(value) ==
    /\ selected_model = value
    /\ openai_tokenizer = {EncodingOf(n) : n \in {m \in value : StartsWithGpt(m)}}
    /\ huggingface_tokenizer = {Loaded(n) : n \in {m \in value : ~StartsWithGpt(m)}}
    /\ encodings = openai_tokenizer
    /\ constructed = [m \in ModelNames |-> IF m \in value THEN 1 ELSE 0]
    /\ reselected = FALSE

\* the names an earlier request of the process may have selected ({}: none did)
PriorSelections == {{}, {"gpt-3.5-turbo"}}
TokPrior == \E value \in PriorSelections : TokSelected(value)

\* the class attributes of lines 29-31 as the class is loaded
TokIdle ==
    /\ selected_model = {}
    /\ openai_tokenizer = {}
    /\ huggingface_tokenizer = {}
    /\ encodings = {}
    /\ constructed = [model_name \in ModelNames |-> 0]
    /\ reselected = FALSE

\* ------------------------------------------------------------------ RagDriver.build_prompt

MaxContexts == 2
MaxMessages == 3

\* The texts a segment can be: a line, a line ending in a blank line, two
\* paragraphs; the texts a query can be.
Segments == {<<"seg1">>, <<"seg2">>, <<"seg3", "\n", "\n">>, <<"p1", "\n", "\n", "p2">>}
Queries == {<<"what is X?">>, <<"a">>, <<"b">>, <<"line1", "\n", "line2">>}

\* what get_context can return: a list of distinct segments
ContextLists ==
    {c \in UNION {[1..n -> Segments] : n \in 0..MaxContexts} :
        \A i, j \in 1..Len(c) : i # j => c[i] # c[j]}

\* sep.join(texts)
RECURSIVE Join(_, _)
Join(sep, texts) ==
    IF texts = <<>> THEN <<>>
    ELSE IF Len(texts) = 1 THEN Head(texts)
    ELSE Head(texts) \o sep \o Join(sep, Tail(texts))

\* build_prompt, given what get_context returned (lines 608-613)
build_prompt(query, contexts) ==
    <<"Additional context:", "\n", "\n">>
        \o Join(<<"\n", "\n">>, contexts)
        \o <<"Question: ">> \o query
        \o <<"\n", "\n", "Answer: ", "\n", "\n">>

\* lines 604-607 down to the search of get_context: without hits
\* get_context returns [] without suspending and the prompt is built at
\* once; with hits the call waits for the notes
BuildPromptSearches ==
    /\ prompt_pc = "start"
    /\ IF prompt_args.hits
       THEN prompt_pc' = "fetching" /\ UNCHANGED prompt_result
       ELSE /\ prompt_result' = {build_prompt(prompt_args.query, <<>>)}
            /\ prompt_pc' = "done"
    /\ UNCHANGED <<prompt_args, indexVars, sweepVars, ragVars, chatVars, authVars, fwdVars>>

\* the notes are there: get_context segments them, which counts tokens and
\* so reads the tokenizer, and returns; lines 608-613 build the prompt
BuildPrompt ==
    /\ prompt_pc = "fetching"
    /\ prompt_result' = {build_prompt(prompt_args.query, prompt_args.contexts)}
    /\ prompt_pc' = "done"
    /\ ReadTokenizer
    /\ UNCHANGED <<prompt_args, indexVars, sweepVars, segVars, ctxVars, handlerVars, moreVars,
                   chatVars, authVars, fwdVars>>

PromptInit ==
    /\ prompt_args \in {a \in [query : Queries, hits : BOOLEAN, contexts : ContextLists] :
                           ~a.hits => a.contexts = <<>>}
    /\ prompt_pc = "start"
    /\ prompt_result = {}
    /\ IndexMet(prompt_args.hits)
    /\ collection # {}
    /\ TokPrior

PromptIdle ==
    /\ prompt_args = [query |-> <<>>, hits |-> FALSE, contexts |-> <<>>]
    /\ prompt_pc = "start"
    /\ prompt_result = {}

\* ------------------------------------------------------------------ views.openai: the RAG chat completion

Roles == {"system", "user", "assistant"}
\* a message content: '' or a text
MessageContents == {<<>>, <<"a">>, <<"b">>}
Messages == [role : Roles, content : MessageContents]
MessageLists == UNION {[1..n -> Messages] : n \in 0..MaxMessages}
\* the request payload: messages, and the model names it may carry ({}: no such key)
ModelFields == {{}, {"gpt-3.5-turbo"}}
TokenizerFields == {{}, {"bert-base-uncased"}}
ChatPayloads == [messages : MessageLists, model : ModelFields, tokenizerModel : TokenizerFields]

\* lines 40-43: the content of the first message whose role is user, '' if none
RECURSIVE FirstUserContent(_)
FirstUserContent(messages) ==
    IF messages = <<>> THEN <<>>
    ELSE IF Head(messages).role = "user" THEN Head(messages).content
    ELSE FirstUserContent(Tail(messages))

UserIndexes(messages) == {i \in 1..Len(messages) : messages[i].role = "user"}

\* lines 55-58: the new prompt replaces the content of the last message
\* whose role is user
InjectPrompt(messages, new_prompt) ==
    IF UserIndexes(messages) = {} THEN messages
    ELSE LET i == CHOOSE k \in UserIndexes(messages) :
                    \A j \in UserIndexes(messages) : j <= k
         IN  [messages EXCEPT ![i].content = new_prompt]

\* lines 32-38: tokenizerModel is popped and used, else model
ChatModel(payload) ==
    IF payload.tokenizerModel # {} THEN payload.tokenizerModel ELSE payload.model

\* what forward_request meets: it raises ({}), or the upstream answers with a status
UpstreamAnswers == {{}, {200}, {429}}

\* where a call of the handler ends: in its first step (no user message,
\* or the assignment of selected_model raises) or when forward_request ends
ChatEndsAt(payload, selected) ==
    IF FirstUserContent(payload.messages) = <<>> THEN "start"
    ELSE IF AssignmentError(ChatModel(payload), selected) # {} THEN "start"
    ELSE "forwarding"

\* v1_chat_completion_rag with its error_handler on a payload, `selected`
\* being RagDriver._selected_model as the request arrives, the retrieval
\* giving `contexts` and forward_request meeting `upstream`: the response
\* status, the query given to build_prompt ({}: not called), the value
\* assigned to selected_model and the payload given to forward_request
\* ({}: none).
v1_chat_completion_rag(payload, contexts, selected, upstream) ==
    LET user_message == FirstUserContent(payload.messages)
        new_prompt == build_prompt(user_message, contexts)
    IN  IF user_message = <<>>
        THEN [status |-> 400, query |-> {}, selected_model |-> {}, forwarded |-> {}]
        ELSE IF AssignmentError(ChatModel(payload), selected) # {}
        THEN [status |-> 500, query |-> {}, selected_model |-> ChatModel(payload),
              forwarded |-> {}]
        ELSE [status |-> IF upstream = {} THEN 500 ELSE CHOOSE status \in upstream : TRUE,
              query |-> {user_message},
              selected_model |-> ChatModel(payload),
              forwarded |-> {[messages |-> InjectPrompt(payload.messages, new_prompt),
                              model |-> payload.model,
                              tokenizerModel |-> {}]}]

ChatResponse ==
    v1_chat_completion_rag(chat_request.payload, chat_request.contexts, chat_request.prior,
                           chat_request.upstream)

\* lines 27-51: the body is there; the handler runs to its first wait.
\* Without a user message it answers at once. Else RagDriver() makes the
\* collection if there is none and the model name is assigned; the
\* search runs; without hits the prompt is built at once and the handler
\* waits in forward_request, with hits it waits for the notes.
ChatCompletionRag ==
    /\ chat_pc = "start"
    /\ IF FirstUserContent(chat_request.payload.messages) = <<>>
       THEN /\ chat_result' = {ChatResponse}
            /\ chat_pc' = "done"
            /\ UNCHANGED <<indexVars, tokVars>>
       ELSE /\ collection' = RagDriver(collection)
            /\ lastOp' = "construct"
            /\ UNCHANGED <<points, written, nwrites>>
            /\ AssignSelectedModel(ChatModel(chat_request.payload))
            /\ IF ChatEndsAt(chat_request.payload, chat_request.prior) = "start"
               THEN chat_result' = {ChatResponse} /\ chat_pc' = "done"
               ELSE /\ chat_pc' = IF chat_request.hits THEN "fetching" ELSE "forwarding"
                    /\ UNCHANGED chat_result
    /\ UNCHANGED <<chat_request, sweepVars, segVars, ctxVars, handlerVars, moreVars,
                   promptVars, authVars, fwdVars>>

\* the notes are there: get_context segments them (the token count reads
\* the tokenizer), build_prompt returns, lines 55-61 rewrite the payload and
\* call forward_request
ChatPromptBuilt ==
    /\ chat_pc = "fetching"
    /\ chat_pc' = "forwarding"
    /\ ReadTokenizer
    /\ UNCHANGED <<chat_request, chat_result, indexVars, sweepVars, segVars, ctxVars,
                   handlerVars, moreVars, promptVars, authVars, fwdVars>>

\* forward_request ends and the handler returns what it returned, or the
\* error_handler answers for what it raised
ChatForwarded ==
    /\ chat_pc = "forwarding"
    /\ chat_result' = {ChatResponse}
    /\ chat_pc' = "done"
    /\ UNCHANGED <<chat_request, indexVars, sweepVars, ragVars, promptVars, authVars, fwdVars>>

\* the contexts a retrieval returns in the handler model
ChatContexts == {<<>>, <<<<"seg1">>, <<"seg2">>>>}

ChatInit ==
    /\ chat_request \in {r \in [payload : ChatPayloads, prior : PriorSelections,
                                 hits : BOOLEAN, contexts : ChatContexts,
                                 upstream : UpstreamAnswers] :
                            ~r.hits => r.contexts = <<>>}
    /\ chat_pc = "start"
    /\ chat_result = {}
    /\ IndexMet(chat_request.hits)
    /\ TokSelected(chat_request.prior)

ChatIdle ==
    /\ chat_request = [payload |-> [messages |-> <<>>, model |-> {}, tokenizerModel |-> {}],
                       prior |-> {}, hits |-> FALSE, contexts |-> <<>>, upstream |-> {}]
    /\ chat_pc = "start"
    /\ chat_result = {}

\* ------------------------------------------------------------------ views.utils.token_required

MaxHeaderLen == 3
\* an Authorization value is a text over these atoms (" " is one space)
HeaderAtoms == {"Bearer", "Basic", " ", "x", "y"}
HeaderTexts == UNION {[1..n -> HeaderAtoms] : n \in 0..MaxHeaderLen}
AuthorizationValues == {{}} \cup {{h} : h \in HeaderTexts}

\* text.split(' '): the words between single spaces, empty words included
RECURSIVE Split(_)
Split(text) ==
    IF text = <<>> THEN << <<>> >>
    ELSE LET rest == Split(Tail(text))
         IN  IF Head(text) = " " THEN << <<>> >> \o rest
             ELSE << <<Head(text)>> \o Head(rest) >> \o Tail(rest)

\* The routes of the application: which wrappers each handler carries.
Endpoints ==
    {[path |-> "/health", token_required |-> FALSE, error_handler |-> FALSE],
     [path |-> "/", token_required |-> FALSE, error_handler |-> FALSE],
     [path |-> "/ui/<path:filename>", token_required |-> FALSE, error_handler |-> FALSE],
     [path |-> "/ui/", token_required |-> FALSE, error_handler |-> FALSE],
     [path |-> "/assets/", token_required |-> TRUE, error_handler |-> TRUE],
     [path |-> "/assets/audio", token_required |-> TRUE, error_handler |-> TRUE],
     [path |-> "/assets/audio/transcribe", token_required |-> TRUE, error_handler |-> TRUE],
     [path |-> "/assets/notebooks", token_required |-> TRUE, error_handler |-> TRUE],
     [path |-> "/assets/chat", token_required |-> TRUE, error_handler |-> TRUE],
     [path |-> "/openai/rag/v1/chat/completions", token_required |-> TRUE, error_handler |-> TRUE],
     [path |-> "/openai/direct/v1/chat/completions", token_required |-> TRUE, error_handler |-> TRUE],
     [path |-> "/openai/rag/v1/completions", token_required |-> TRUE, error_handler |-> TRUE],
     [path |-> "/openai/direct/v1/completions", token_required |-> TRUE, error_handler |-> FALSE],
     [path |-> "/openai/rag/v1/embeddings", token_required |-> TRUE, error_handler |-> FALSE],
     [path |-> "/openai/direct/v1/embeddings", token_required |-> TRUE, error_handler |-> FALSE],
     [path |-> "/openai/rag/v1/models", token_required |-> TRUE, error_handler |-> FALSE],
     [path |-> "/openai/direct/v1/models", token_required |-> TRUE, error_handler |-> FALSE],
     [path |-> "/openai/direct/v1/retrieve", token_required |-> TRUE, error_handler |-> FALSE],
     [path |-> "/openai/direct/v1/transcribe", token_required |-> TRUE, error_handler |-> FALSE]}

\* token_required's decision on a request: "pass" (the handler is awaited),
\* "401", or "IndexError" (split(' ')[1] on a value with no space).
token_required(token, header) ==
    IF token = {} THEN "pass"
    ELSE IF header = {} \/ header = {<<>>} THEN "401"
    ELSE LET words == Split(CHOOSE h \in header : TRUE)
         IN  IF Len(words) < 2 THEN "IndexError"
             ELSE IF {words[2]} # token THEN "401"
             ELSE "pass"

\* The response to a request: an IndexError becomes the error_handler's
\* JSON 500 where the route has one and the framework's 500 where not; a
\* handler that runs answers with its own status, 200 here.
Respond(endpoint, token, header) ==
    LET gate == IF endpoint.token_required THEN token_required(token, header) ELSE "pass"
    IN  CASE gate = "pass" -> [status |-> 200, handler_ran |-> TRUE]
          [] gate = "401" -> [status |-> 401, handler_ran |-> FALSE]
          [] gate = "IndexError" -> [status |-> 500, handler_ran |-> FALSE]

HandleRequest ==
    /\ auth_response = {}
    /\ auth_response' = {Respond(auth_request.endpoint, companion_token, auth_request.header)}
    /\ UNCHANGED <<companion_token, auth_request, indexVars, sweepVars, ragVars, promptVars,
                   chatVars, fwdVars>>

AuthInit ==
    /\ companion_token \in {{}, {<<"x">>}}
    /\ auth_request \in [endpoint : Endpoints, header : AuthorizationValues]
    /\ auth_response = {}

AuthIdle ==
    /\ companion_token = {}
    /\ auth_request = [endpoint |-> [path |-> "/health", token_required |-> FALSE,
                                     error_handler |-> FALSE],
                       header |-> {}]
    /\ auth_response = {}

\* ------------------------------------------------------------------ views.utils.forward_request

MaxHeaders == 2
MaxChunks == 3
MaxElapsed == 60
NonStreamTimeout == 30
\* the total time the framework gives the sending of a response body: its
\* default RESPONSE_TIMEOUT, in seconds, which the Response of line 58 leaves
\* in force (views/openai.py line 220 sets response.timeout = None, this one
\* does not)
ResponseTimeout == 60

\* f'Bearer {token}'
BearerOf(token) == <<"Bearer", " ", token>>

\* header names are compared without regard to case
Lower(name) == IF name = "Authorization" THEN "authorization" ELSE name

\* the header entries a caller sends, as (name, value)
HeaderEntries ==
    {<<"Host", <<"companion.local">>>>,
     <<"Authorization", BearerOf("companion-secret")>>,
     <<"authorization", BearerOf("other-secret")>>}
HeaderLists == UNION {[1..n -> HeaderEntries] : n \in 0..MaxHeaders}

RECURSIVE HeadersRemove(_, _)
HeadersRemove(headers, key) ==
    IF headers = <<>> THEN <<>>
    ELSE IF Lower(Head(headers)[1]) = Lower(key) THEN HeadersRemove(Tail(headers), key)
    ELSE <<Head(headers)>> \o HeadersRemove(Tail(headers), key)

HeadersHas(headers, key) ==
    \E i \in 1..Len(headers) : Lower(headers[i][1]) = Lower(key)

\* A plausible bug: the configured value is added beside the caller's.
HeadersAdd(headers, key, value) == headers \o <<<<key, value>>>>

\* headers[key] = value: the first entry of that name is replaced and the
\* others removed; with no such entry the new one is appended.
RECURSIVE HeadersSet(_, _, _)
HeadersSet(headers, key, value) ==
    IF headers = <<>> THEN <<<<key, value>>>>
    ELSE IF Lower(Head(headers)[1]) = Lower(key)
         THEN <<<<key, value>>>> \o HeadersRemove(Tail(headers), key)
    ELSE <<Head(headers)>> \o HeadersSet(Tail(headers), key, value)

\* lines 38-44: the headers sent upstream; headers.pop raises KeyError when
\* the caller sent no Authorization.
ForwardHeaders(headers, token) ==
    IF token # {}
    THEN [raised |-> FALSE,
          headers |-> HeadersSet(headers, "Authorization", BearerOf(CHOOSE t \in token : TRUE))]
    ELSE IF HeadersHas(headers, "Authorization")
    THEN [raised |-> FALSE, headers |-> HeadersRemove(headers, "Authorization")]
    ELSE [raised |-> TRUE, headers |-> headers]

\* the payload: {} (None) or {a dict}, whose stream key is {} (absent) or {value}
Payloads == {{}} \cup {{[stream |-> v]} : v \in {{}, {TRUE}, {FALSE}}}
Methods == {"POST", "GET"}

\* lines 47-49
WantsStream(payload, method) ==
    /\ method = "POST"
    /\ \E d \in payload : d.stream = {TRUE}

\* the total time the upstream call may take: {} is none (timeout=None)
ForwardTimeout(stream) == IF stream THEN {} ELSE {NonStreamTimeout}

Chunks == {"a", "bb", "ccc"}

\* the request forward_request makes of the upstream, with the headers it prepared
UpstreamRequest(headers, stream) ==
    [headers |-> headers,
     method |-> fwd_request.method,
     json |-> IF fwd_request.method = "POST" THEN fwd_request.payload ELSE {},
     timeout |-> ForwardTimeout(stream)]

\* forward_request from its call to its first wait or its return (lines
\* 38-66): the headers are prepared; for a stream the Response is returned
\* around the generator, which has not run and has sent nothing; otherwise
\* the request is sent and the call waits for the response
ForwardRequest ==
    /\ fwd_mode = "new"
    /\ LET h == ForwardHeaders(fwd_request.headers, openai_token)
           stream == WantsStream(fwd_request.payload, fwd_request.method)
       IN  IF h.raised
           THEN /\ fwd_mode' = "raised"
                /\ UNCHANGED <<upstream_request, content_type>>
           ELSE IF stream
           THEN /\ fwd_mode' = "returned"
                /\ content_type' = {"text/event-stream"}
                /\ UNCHANGED upstream_request
           ELSE /\ fwd_mode' = "waiting"
                /\ upstream_request' = {UpstreamRequest(h.headers, FALSE)}
                /\ UNCHANGED content_type
    /\ UNCHANGED <<openai_token, fwd_request, sent, upstream_closed, received, elapsed,
                   indexVars, sweepVars, ragVars, promptVars, chatVars, authVars>>

\* the server iterates the body of the Response: async_stream runs to its
\* first wait (lines 52-54) and sends the request, with the headers
\* forward_request prepared
StreamStarts ==
    /\ fwd_mode = "returned"
    /\ fwd_mode' = "streaming"
    /\ upstream_request' =
          {UpstreamRequest(ForwardHeaders(fwd_request.headers, openai_token).headers, TRUE)}
    /\ UNCHANGED <<openai_token, fwd_request, content_type, sent, upstream_closed, received,
                   elapsed, indexVars, sweepVars, ragVars, promptVars, chatVars, authVars>>

\* the upstream emits one more chunk of its streamed response
UpstreamEmits ==
    /\ fwd_mode = "streaming"
    /\ ~upstream_closed
    /\ Len(sent) < MaxChunks
    /\ \E chunk \in Chunks : sent' = Append(sent, chunk)
    /\ UNCHANGED <<openai_token, fwd_request, fwd_mode, upstream_request, content_type,
                   upstream_closed, received, elapsed,
                   indexVars, sweepVars, ragVars, promptVars, chatVars, authVars>>

UpstreamCloses ==
    /\ fwd_mode = "streaming"
    /\ ~upstream_closed
    /\ upstream_closed' = TRUE
    /\ UNCHANGED <<openai_token, fwd_request, fwd_mode, upstream_request, content_type,
                   sent, received, elapsed,
                   indexVars, sweepVars, ragVars, promptVars, chatVars, authVars>>

\* async for chunk in r.aiter_bytes(): a chunk the upstream has emitted and
\* the client has not received is there to be yielded
RelayReady(nsent, nreceived, closed) == nreceived < nsent

\* lines 55-56: yield chunk
RelayChunk ==
    /\ fwd_mode = "streaming"
    /\ RelayReady(Len(sent), Len(received), upstream_closed)
    /\ received' = Append(received, sent[Len(received) + 1])
    /\ UNCHANGED <<openai_token, fwd_request, fwd_mode, upstream_request, content_type,
                   sent, upstream_closed, elapsed,
                   indexVars, sweepVars, ragVars, promptVars, chatVars, authVars>>

\* the async for ends: the upstream has closed and every chunk was yielded
StreamEnds ==
    /\ fwd_mode = "streaming"
    /\ upstream_closed
    /\ Len(received) = Len(sent)
    /\ fwd_mode' = "done"
    /\ UNCHANGED <<openai_token, fwd_request, upstream_request, content_type,
                   sent, upstream_closed, received, elapsed,
                   indexVars, sweepVars, ragVars, promptVars, chatVars, authVars>>

\* lines 60-69: the whole response arrives and is returned
ResponseArrives ==
    /\ fwd_mode = "waiting"
    /\ fwd_mode' = "done"
    /\ UNCHANGED <<openai_token, fwd_request, upstream_request, content_type,
                   sent, upstream_closed, received, elapsed,
                   indexVars, sweepVars, ragVars, promptVars, chatVars, authVars>>

\* the timeout of the httpx client expires (timeout=30.0 on the awaited
\* request; none on the stream, whose client has timeout=None)
RequestTimesOut ==
    /\ fwd_mode \in {"waiting", "streaming"}
    /\ \E u \in upstream_request : \E t \in u.timeout : elapsed >= t
    /\ fwd_mode' = "timed_out"
    /\ UNCHANGED <<openai_token, fwd_request, upstream_request, content_type,
                   sent, upstream_closed, received, elapsed,
                   indexVars, sweepVars, ragVars, promptVars, chatVars, authVars>>

\* the framework's total timeout on the streamed Response expires while the
\* body is still being sent: the sending is cancelled and the connection
\* closed, whatever the upstream has yet to emit or the client to receive
ResponseTimesOut ==
    /\ fwd_mode = "streaming"
    /\ elapsed >= ResponseTimeout
    /\ fwd_mode' = "response_timed_out"
    /\ UNCHANGED <<openai_token, fwd_request, upstream_request, content_type,
                   sent, upstream_closed, received, elapsed,
                   indexVars, sweepVars, ragVars, promptVars, chatVars, authVars>>

FwdTick ==
    /\ fwd_mode \in {"waiting", "streaming"}
    /\ elapsed + 15 <= MaxElapsed
    /\ elapsed' = elapsed + 15
    /\ UNCHANGED <<openai_token, fwd_request, fwd_mode, upstream_request, content_type,
                   sent, upstream_closed, received,
                   indexVars, sweepVars, ragVars, promptVars, chatVars, authVars>>

FwdInit ==
    /\ openai_token \in {{}, {"sk-upstream"}}
    /\ fwd_request \in [headers : HeaderLists, payload : Payloads, method : Methods]
    /\ fwd_mode = "new"
    /\ upstream_request = {}
    /\ content_type = {}
    /\ sent = <<>>
    /\ upstream_closed = FALSE
    /\ received = <<>>
    /\ elapsed = 0

FwdIdle ==
    /\ openai_token = {}
    /\ fwd_request = [headers |-> <<>>, payload |-> {}, method |-> "GET"]
    /\ fwd_mode = "idle"
    /\ upstream_request = {}
    /\ content_type = {}
    /\ sent = <<>>
    /\ upstream_closed = FALSE
    /\ received = <<>>
    /\ elapsed = 0

\* ------------------------------------------------------------------ RagDriver._segment_document

MaxElements == 3
MaxDepth == 4

\* ---- text: str operations on sequences of atoms
Whitespace == {"\n", " "}

\* b in t
IsSub(b, t) ==
    \E i \in 0..(Len(t) - Len(b)) : SubSeq(t, i + 1, i + Len(b)) = b

\* t.lstrip(), t.rstrip(), t.strip()
RECURSIVE LStrip(_)
LStrip(t) == IF t # <<>> /\ Head(t) \in Whitespace THEN LStrip(Tail(t)) ELSE t
RECURSIVE RStrip(_)
RStrip(t) ==
    IF t # <<>> /\ t[Len(t)] \in Whitespace THEN RStrip(SubSeq(t, 1, Len(t) - 1)) ELSE t
Strip(t) == RStrip(LStrip(t))

\* t.split(sep) for a two-atom or one-atom separator, left to right
RECURSIVE SplitOn(_, _)
SplitOn(t, sep) ==
    IF Len(t) < Len(sep) THEN <<t>>
    ELSE IF SubSeq(t, 1, Len(sep)) = sep
         THEN << <<>> >> \o SplitOn(SubSeq(t, Len(sep) + 1, Len(t)), sep)
    ELSE LET rest == SplitOn(Tail(t), sep)
         IN  << <<Head(t)>> \o Head(rest) >> \o Tail(rest)

\* ''.join(texts)
RECURSIVE Concat(_)
Concat(texts) == IF texts = <<>> THEN <<>> ELSE Head(texts) \o Concat(Tail(texts))

\* ---- MarkdownIt().parse for documents of ATX headings and paragraphs:
\* the block tokens, a token being [type, level, content]
HeadingLevel(line) ==
    IF line # <<>> /\ Head(line) = "#" /\ (Len(line) = 1 \/ line[2] = " ") THEN 1
    ELSE IF line # <<>> /\ Head(line) = "##" /\ (Len(line) = 1 \/ line[2] = " ") THEN 2
    ELSE 0

Token(type, level, content) == [type |-> type, level |-> level, content |-> content]

HeadingTokens(line) ==
    <<Token("heading_open", HeadingLevel(line), <<>>),
      Token("inline", 0, Strip(Tail(line))),
      Token("heading_close", HeadingLevel(line), <<>>)>>

\* a paragraph's inline content is its lines joined by "\n"
ParagraphTokens(lines) ==
    IF lines = <<>> THEN <<>>
    ELSE <<Token("paragraph_open", 0, <<>>),
           Token("inline", 0, Strip(Join(<<"\n">>, lines))),
           Token("paragraph_close", 0, <<>>)>>

\* line by line: a heading or a blank line ends the paragraph in progress
RECURSIVE ParseLines(_, _)
ParseLines(lines, paragraph) ==
    IF lines = <<>> THEN ParagraphTokens(paragraph)
    ELSE IF HeadingLevel(Head(lines)) > 0
         THEN ParagraphTokens(paragraph) \o HeadingTokens(Head(lines))
                  \o ParseLines(Tail(lines), <<>>)
    ELSE IF Strip(Head(lines)) = <<>>
         THEN ParagraphTokens(paragraph) \o ParseLines(Tail(lines), <<>>)
    ELSE ParseLines(Tail(lines), Append(paragraph, Head(lines)))

Parse(document) == ParseLines(SplitOn(document, <<"\n">>), <<>>)

\* line 177: sorted(set(int(tok.tag[1]) for tok in tokens if tok.type == 'heading_open'))
AllLevels(tokens) ==
    {tokens[i].level : i \in {j \in 1..Len(tokens) : tokens[j].type = "heading_open"}}
MinLevel(levels) == CHOOSE l \in levels : \A m \in levels : l <= m

\* ---- the token counter: the tokenizer's count (here one token per atom
\* that is not whitespace), or a counter that finds every passage too long
Configs == {[counter |-> "count", max_segment_tokens |-> 2],
            [counter |-> "count", max_segment_tokens |-> 3],
            [counter |-> "over", max_segment_tokens |-> 512]}
estimate_tokens(cfg, passage) ==
    IF cfg.counter = "over" THEN 1000
    ELSE Cardinality({i \in 1..Len(passage) : passage[i] \notin Whitespace})

\* A plausible bug: a passage that fills the budget exactly counts as too long.
WithinBudgetStrict(cfg, passage) == estimate_tokens(cfg, passage) < cfg.max_segment_tokens

\* lines 170 and 333: the passage fits the budget
WithinBudget(cfg, passage) == estimate_tokens(cfg, passage) <= cfg.max_segment_tokens

\* ---- _tokens_to_text
RECURSIVE TokenContents(_)
TokenContents(tokens) ==
    IF tokens = <<>> THEN <<>> ELSE <<Head(tokens).content>> \o TokenContents(Tail(tokens))
tokens_to_text(tokens) == Strip(Concat(TokenContents(tokens)))

\* ---- _split_by_heading_level: the list of (title, content)
flush_block(blocks, current_title, current_content) ==
    IF current_title # <<>> \/ current_content # <<>>
    THEN Append(blocks, <<current_title, tokens_to_text(current_content)>>)
    ELSE blocks

RECURSIVE SplitLoop(_, _, _, _, _, _)
SplitLoop(tokens, idx, split_level, blocks, current_title, current_content) ==
    IF idx > Len(tokens) THEN flush_block(blocks, current_title, current_content)
    ELSE IF tokens[idx].type = "heading_open" /\ tokens[idx].level = split_level
         THEN SplitLoop(tokens, idx + 1, split_level,
                        flush_block(blocks, current_title, current_content),
                        IF idx + 1 <= Len(tokens) THEN tokens[idx + 1].content
                        ELSE current_title,
                        <<>>)
    ELSE SplitLoop(tokens, idx + 1, split_level, blocks, current_title,
                   Append(current_content, tokens[idx]))

split_by_heading_level(tokens, split_level) ==
    SplitLoop(tokens, 1, split_level, <<>>, <<>>, <<>>)

\* ---- _fallback_split
RECURSIVE StripNonEmpty(_)
StripNonEmpty(texts) ==
    IF texts = <<>> THEN <<>>
    ELSE IF Strip(Head(texts)) = <<>> THEN StripNonEmpty(Tail(texts))
    ELSE <<Strip(Head(texts))>> \o StripNonEmpty(Tail(texts))

Paragraphs(document) == StripNonEmpty(SplitOn(document, <<"\n", "\n">>))

RECURSIVE FallbackLoop(_, _, _, _)
FallbackLoop(cfg, paragraphs, current, segments) ==
    IF paragraphs = <<>>
    THEN IF current # <<>> THEN Append(segments, Strip(current)) ELSE segments
    ELSE LET p == Head(paragraphs)
             tentative == IF current # <<>> THEN current \o <<"\n", "\n">> \o p ELSE p
         IN  IF WithinBudget(cfg, tentative)
             THEN FallbackLoop(cfg, Tail(paragraphs), tentative, segments)
             ELSE FallbackLoop(cfg, Tail(paragraphs), p,
                               IF current # <<>> THEN Append(segments, Strip(current))
                               ELSE segments)

fallback_split(cfg, document) == FallbackLoop(cfg, Paragraphs(document), <<>>, <<>>)

Range(f) == {f[i] : i \in DOMAIN f}

\* list(set(...)): the lists that hold each element of a set once, in
\* whichever order the set is listed
Orderings(S) ==
    {f \in [1..Cardinality(S) -> S] : \A i, j \in DOMAIN f : f[i] = f[j] => i = j}

\* ---- _fallback_segment: the lists it may return, the set of the chunks
\* that hold a matching block listed in whichever order (lines 253-255)
fallback_segment(cfg, document, matching_blocks) ==
    LET split == fallback_split(cfg, document)
    IN  Orderings({t \in Range(split) : \E b \in Range(matching_blocks) : IsSub(b, t)})

\* ---- _try_deeper_split, _match_blocks and _segment_document itself; a
\* current_level of 0 is None, and cfg is [counter, max_segment_tokens]

\* A plausible bug: the retry keeps the level it has just tried.
DeeperLevelsSame(all_levels, current_level) == {lvl \in all_levels : lvl >= current_level}

\* line 272
DeeperLevels(all_levels, current_level) == {lvl \in all_levels : lvl > current_level}

\* line 183
SplitLevel(all_levels, current_level) ==
    IF current_level # 0 THEN current_level ELSE MinLevel(all_levels)

\* line 300
Combined(block) == block[1] \o <<"\n">> \o block[2]

\* line 301
Matches(block, matching_blocks) ==
    \E b \in Range(matching_blocks) : IsSub(b, Combined(block))

\* line 306
MatchingIn(block, matching_blocks) ==
    SelectSeq(matching_blocks, LAMBDA b : IsSub(b, Combined(block)))

\* what a call ends with: the list it returns, or RagDriverError raised
Returned(segments) == [raised |-> FALSE, segments |-> segments]
RagDriverError == [raised |-> TRUE, segments |-> <<>>]
\* a list extended by a later call's list; an exception ends the whole
Extended(first, rest) ==
    IF first.raised \/ rest.raised THEN RagDriverError
    ELSE Returned(first.segments \o rest.segments)

\* each of the three gives the set of the ways the call may end
RECURSIVE segment_document(_, _, _, _)
RECURSIVE try_deeper_split(_, _, _, _, _)
RECURSIVE match_blocks(_, _, _, _)

segment_document(cfg, document, matching_blocks, current_level) ==
    IF matching_blocks = <<>> THEN {RagDriverError}
    ELSE IF WithinBudget(cfg, document) THEN {Returned(<<document>>)}
    ELSE LET tokens == Parse(document)
             all_levels == AllLevels(tokens)
         IN  IF all_levels = {}
             THEN {Returned(l) : l \in fallback_segment(cfg, document, matching_blocks)}
             ELSE LET split_level == SplitLevel(all_levels, current_level)
                      blocks == split_by_heading_level(tokens, split_level)
                  IN  IF Len(blocks) = 1
                      THEN try_deeper_split(cfg, document, matching_blocks,
                                            all_levels, split_level)
                      ELSE match_blocks(cfg, blocks, matching_blocks, split_level)

try_deeper_split(cfg, document, matching_blocks, all_levels, current_level) ==
    LET deeper_levels == DeeperLevels(all_levels, current_level)
    IN  IF deeper_levels # {}
        THEN segment_document(cfg, document, matching_blocks, MinLevel(deeper_levels))
        ELSE {Returned(l) : l \in fallback_segment(cfg, document, matching_blocks)}

match_blocks(cfg, blocks, matching_blocks, current_level) ==
    IF blocks = <<>> THEN {Returned(<<>>)}
    ELSE LET block == Head(blocks)
             text == block[2]
             block_texts ==
                 IF Matches(block, matching_blocks)
                 THEN IF ~WithinBudget(cfg, text)
                      THEN segment_document(cfg, text, MatchingIn(block, matching_blocks),
                                            current_level)
                      ELSE {Returned(<<text>>)}
                 ELSE {Returned(<<>>)}
         IN  {Extended(first, rest) :
                 first \in block_texts,
                 rest \in match_blocks(cfg, Tail(blocks), matching_blocks, current_level)}

\* a call of _segment_document from outside: the ways it may end
SegmentResult(cfg, document, matching_blocks) ==
    segment_document(cfg, document, matching_blocks, 0)

\* The recursive calls one invocation of _segment_document makes itself
\* (line 275 through _try_deeper_split, line 304 through _match_blocks), each
\* as the arguments [document, matching_blocks, current_level] it passes.
RecursiveCalls(cfg, call) ==
    IF call.matching_blocks = <<>> \/ WithinBudget(cfg, call.document) THEN {}
    ELSE LET tokens == Parse(call.document)
             all_levels == AllLevels(tokens)
         IN  IF all_levels = {} THEN {}
             ELSE LET split_level == SplitLevel(all_levels, call.current_level)
                      blocks == split_by_heading_level(tokens, split_level)
                      deeper_levels == DeeperLevels(all_levels, split_level)
                  IN  IF Len(blocks) = 1
                      THEN IF deeper_levels # {}
                           THEN {[document |-> call.document,
                                  matching_blocks |-> call.matching_blocks,
                                  current_level |-> MinLevel(deeper_levels)]}
                           ELSE {}
                      ELSE {[document |-> blocks[i][2],
                             matching_blocks |-> MatchingIn(blocks[i], call.matching_blocks),
                             current_level |-> split_level] :
                               i \in {j \in 1..Len(blocks) :
                                        /\ Matches(blocks[j], call.matching_blocks)
                                        /\ ~WithinBudget(cfg, blocks[j][2])}}

\* ---- the calls considered
\* a document is up to MaxElements of these, one "\n" or a blank line between
\* two: a heading of level 1 or 2, a paragraph, a pair of paragraphs
Elements == {<<"#", " ", "H1">>, <<"##", " ", "H2">>, <<"p1">>, <<"p2">>,
             <<"p2", "\n", "\n", "p1">>}
Separators == {<<"\n">>, <<"\n", "\n">>}
DocumentsOf[n \in 1..MaxElements] ==
    IF n = 1 THEN Elements
    ELSE {d \o s \o e : d \in DocumentsOf[n - 1], s \in Separators, e \in Elements}
Documents == UNION {DocumentsOf[n] : n \in 1..MaxElements}

\* documents with two sub-sections under a level-1 heading that follows other
\* content: <prefix> # H1 / ## H2 / p2 / ## H3 / p3
SubSection(title, body, sep) == <<"##", " ", title>> \o sep \o body
NestedPrefixes == {<<"p1">>, <<"#", " ", "H1", "\n", "p1">>}
NestedDocuments ==
    {prefix \o sep \o <<"#", " ", "H1">> \o sep \o SubSection("H2", <<"p2">>, sep)
        \o sep \o SubSection("H3", <<"p3">>, sep) :
            prefix \in NestedPrefixes, sep \in Separators}

MatchingBlockTexts == {<<"p1">>, <<"p2">>, <<"H1">>, <<"H1", "\n", "p1">>}
MatchingBlockLists ==
    {<<>>} \cup {<<b>> : b \in MatchingBlockTexts}
           \cup {<<b, c>> : b \in MatchingBlockTexts, c \in MatchingBlockTexts}

SegCfg == [counter |-> seg_args.counter, max_segment_tokens |-> seg_args.max_segment_tokens]

\* one call of _segment_document from outside, from entry to return
SegmentDocument ==
    /\ seg_result = {}
    /\ \E r \in SegmentResult(SegCfg, seg_args.document, seg_args.matching_blocks) :
           seg_result' = {r}
    /\ IF seg_args.matching_blocks = <<>> THEN UNCHANGED tokVars ELSE ReadTokenizer
    /\ UNCHANGED <<seg_args, seg_call, seg_depth, ctxVars, handlerVars, moreVars,
                   indexVars, sweepVars, promptVars, chatVars, authVars, fwdVars>>

\* the invocation makes one of its recursive calls
RecursiveCall ==
    /\ seg_depth < MaxDepth
    /\ \E c \in RecursiveCalls(SegCfg, seg_call) : seg_call' = c
    /\ seg_depth' = seg_depth + 1
    /\ ReadTokenizer
    /\ UNCHANGED <<seg_args, seg_result, ctxVars, handlerVars, moreVars,
                   indexVars, sweepVars, promptVars, chatVars, authVars, fwdVars>>

SegInit ==
    /\ \E cfg \in Configs, document \in Documents \cup NestedDocuments,
          matching_blocks \in MatchingBlockLists :
           seg_args = [document |-> document, matching_blocks |-> matching_blocks,
                       counter |-> cfg.counter,
                       max_segment_tokens |-> cfg.max_segment_tokens]
    /\ seg_call = [document |-> seg_args.document,
                   matching_blocks |-> seg_args.matching_blocks,
                   current_level |-> 0]
    /\ seg_depth = 0
    /\ seg_result = {}

SegIdle ==
    /\ seg_args = [document |-> <<>>, matching_blocks |-> <<>>,
                   counter |-> "count", max_segment_tokens |-> 512]
    /\ seg_call = [document |-> <<>>, matching_blocks |-> <<>>, current_level |-> 0]
    /\ seg_depth = 0
    /\ seg_result = {}

\* ------------------------------------------------------------------ RagDriver.get_context

MaxHits == 2
MaxLimit == 2

\* what search returns: hits, each with the document and the content of its block
Hits == [documentId : DocumentIds, content : {<<"p1">>, <<"p2">>}]
HitLists == UNION {[1..n -> Hits] : n \in 0..MaxHits}

\* the notes get_note_markdown may return: a short one, one with two equal
\* sections, one with three different sections around the same block
NoteDocuments ==
    {<<"p1">>,
     <<"#", " ", "H1", "\n", "p1", "\n", "\n", "#", " ", "H1", "\n", "p1">>,
     <<"p1", "\n", "\n", "#", " ", "H1", "\n", "p1", "\n", "\n", "#", " ", "H2", "\n", "p1">>}

ContextCfg == [counter |-> "count", max_segment_tokens |-> 2]

\* lines 554-557: list(set(result['documentId'] ...)), the lists it may be
HitDocumentIds(search_results) ==
    Orderings({search_results[i].documentId : i \in DOMAIN search_results})

\* lines 573-576
HitBlocks(search_results, document_id) ==
    LET hits == SelectSeq(search_results, LAMBDA r : r.documentId = document_id)
    IN  [i \in DOMAIN hits |-> hits[i].content]

\* lines 572-581: the calls of _segment_document, in order; notes is the
\* list the gather returned
SegmenterCalls(document_ids, search_results, notes) ==
    [i \in DOMAIN document_ids |->
        [document_id |-> document_ids[i],
         document |-> notes[i],
         matching_blocks |-> HitBlocks(search_results, document_ids[i])]]

\* lines 570-581: the segments of every hit document, one after the other;
\* the ways the loop may end
RECURSIVE SegmentsOf(_)
SegmentsOf(calls) ==
    IF calls = <<>> THEN {Returned(<<>>)}
    ELSE {Extended(first, rest) :
            first \in segment_document(ContextCfg, Head(calls).document,
                                       Head(calls).matching_blocks, 0),
            rest \in SegmentsOf(Tail(calls))}

HitSegments(document_ids, search_results, notes) ==
    SegmentsOf(SegmenterCalls(document_ids, search_results, notes))

\* A plausible bug: the segments are truncated as collected, duplicates kept.
NoDedup(segments) == {segments}

\* line 583: list(set(segments)), in whichever order the set is listed
Dedup(segments) == Orderings(Range(segments))

\* line 587: segments[:limit * 2]
Truncate(segments, n) == SubSeq(segments, 1, IF Len(segments) < n THEN Len(segments) ELSE n)

\* lines 583-587 after the loop left `outcome`: the ways the call may end
Context(outcome, limit) ==
    IF outcome.raised THEN {RagDriverError}
    ELSE {Returned(Truncate(segments, limit * 2)) : segments \in Dedup(outcome.segments)}

\* lines 560-566: one get_note_markdown task per document id; the responses
\* arrive in the order `completed` (task indexes), each with the note asked for
Completions(document_ids, notes, completed) ==
    [k \in DOMAIN completed |->
        [task |-> completed[k], note |-> notes[document_ids[completed[k]]]]]

\* A plausible bug: the results are listed in the order the tasks complete.
GatherAsCompleted(completions) == [i \in DOMAIN completions |-> completions[i].note]

\* asyncio.gather(*tasks): the results, listed in the order of the tasks
Gather(completions) ==
    [i \in DOMAIN completions |->
        completions[CHOOSE k \in DOMAIN completions : completions[k].task = i].note]

\* the ways get_context may end when the notes server holds `notes`
get_context(search_results, notes, limit) ==
    IF search_results = <<>> THEN {Returned(<<>>)}
    ELSE UNION {Context(outcome, limit) :
                  outcome \in UNION {HitSegments(document_ids, search_results,
                                                 [i \in DOMAIN document_ids |->
                                                     notes[document_ids[i]]]) :
                                        document_ids \in HitDocumentIds(search_results)}}

\* lines 546-566: the search; without hits the call returns at once, with
\* hits it starts one fetch per document id and waits in the gather
ContextSearch ==
    /\ ctx_pc = "start"
    /\ IF ctx_args.search_results = <<>>
       THEN /\ ctx_result' = {Returned(<<>>)}
            /\ ctx_calls' = {[fetched |-> <<>>, completed |-> <<>>, segmenter |-> <<>>,
                              segments |-> <<>>]}
            /\ ctx_pc' = "done"
       ELSE /\ \E document_ids \in HitDocumentIds(ctx_args.search_results) :
                   ctx_calls' = {[fetched |-> document_ids, completed |-> <<>>,
                                  segmenter |-> <<>>, segments |-> <<>>]}
            /\ ctx_pc' = "fetching"
            /\ UNCHANGED ctx_result
    /\ UNCHANGED <<ctx_args, segVars, handlerVars, tokVars, moreVars,
                   indexVars, sweepVars, promptVars, chatVars, authVars, fwdVars>>

\* the response to one of the fetches arrives
NoteArrives ==
    /\ ctx_pc = "fetching"
    /\ \E c \in ctx_calls :
           \E task \in DOMAIN c.fetched \ Range(c.completed) :
               ctx_calls' = {[c EXCEPT !.completed = Append(@, task)]}
    /\ UNCHANGED <<ctx_args, ctx_pc, ctx_result, segVars, handlerVars, tokVars, moreVars,
                   indexVars, sweepVars, promptVars, chatVars, authVars, fwdVars>>

\* lines 566-588: every fetch is complete, the gather returns and the call
\* runs to its end; the segmenter counts tokens, which reads the tokenizer
GetContext ==
    /\ ctx_pc = "fetching"
    /\ \E c \in ctx_calls :
           /\ Len(c.completed) = Len(c.fetched)
           /\ LET notes == Gather(Completions(c.fetched, ctx_args.notes, c.completed))
                  calls == SegmenterCalls(c.fetched, ctx_args.search_results, notes)
              IN  \E outcome \in SegmentsOf(calls) :
                      /\ ctx_calls' = {[c EXCEPT !.segmenter = calls,
                                                 !.segments = outcome.segments]}
                      /\ \E context \in Context(outcome, ctx_args.limit) :
                             ctx_result' = {context}
    /\ ctx_pc' = "done"
    /\ ReadTokenizer
    /\ UNCHANGED <<ctx_args, segVars, handlerVars, moreVars,
                   indexVars, sweepVars, promptVars, chatVars, authVars, fwdVars>>

CtxInit ==
    /\ ctx_args \in [search_results : HitLists, notes : [DocumentIds -> NoteDocuments],
                     limit : 0..MaxLimit]
    /\ ctx_pc = "start"
    /\ ctx_result = {}
    /\ ctx_calls = {}

CtxIdle ==
    /\ ctx_args = [search_results |-> <<>>, notes |-> [d \in DocumentIds |-> <<>>],
                   limit |-> 0]
    /\ ctx_pc = "start"
    /\ ctx_result = {}
    /\ ctx_calls = {}

\* ------------------------------------------------------------------ views.openai: the handlers that take a payload

MaxHandlerMessages == 2

Handlers == {"v1_chat_completion_rag", "v1_chat_completion_direct",
             "v1_completions_rag", "v1_completions_direct", "v1_retrieve"}
\* the handlers wrapped in @error_handler (openai.py lines 20, 65, 79)
HasErrorHandler(handler) ==
    handler \in {"v1_chat_completion_rag", "v1_chat_completion_direct", "v1_completions_rag"}
RagHandlers == {"v1_chat_completion_rag", "v1_completions_rag"}
DirectHandlers == {"v1_chat_completion_direct", "v1_completions_direct"}

\* the JSON payload: each key absent ({}) or present with a value
HandlerMessages == [role : {"system", "user"}, content : {<<>>, <<"a">>}]
HandlerMessageLists == UNION {[1..n -> HandlerMessages] : n \in 0..MaxHandlerMessages}
HandlerPayloads ==
    [messages : {{}} \cup {{l} : l \in HandlerMessageLists},
     prompt : {{}, {<<>>}, {<<"q">>}},
     model : ModelFields,
     tokenizerModel : TokenizerFields,
     temperature : {{}, {"0.7"}}]

\* ---- SiyuanApi._raw_post on the notes server's response [status_code, code]:
\* the SiYuanApiError it raises ({}: none)
NotesResponses == [status_code : {200, 500}, code : {0, -1}]
raw_post(response) ==
    IF response.status_code # 200
    THEN {[error |-> "SiYuanApiError", status_code |-> response.status_code]}
    ELSE IF response.code # 0
    THEN {[error |-> "SiYuanApiError", status_code |-> response.status_code]}
    ELSE {}

\* what the retrieval of a request meets: no hit, or hits and then the
\* notes server's response, a failure to reach it, the contexts found
NoHits ==
    [hits |-> FALSE, notes_response |-> [status_code |-> 200, code |-> 0],
     failure |-> "none", contexts |-> <<>>]
Outcomes ==
    {NoHits} \cup [hits : {TRUE},
                   notes_response : NotesResponses,
                   failure : {"none", "Exception"},
                   contexts : {<<<<"seg1">>, <<"seg2">>>>}]

\* the exception get_context raises under an outcome ({}: none)
ContextError(outcome) ==
    IF ~outcome.hits THEN {}
    ELSE IF outcome.failure = "Exception"
    THEN {[error |-> "Exception", status_code |-> 500]}
    ELSE raw_post(outcome.notes_response)

\* CompanionEndpointHandlerError(message, 400)
HandlerError == [error |-> "CompanionEndpointHandlerError", status_code |-> 400]

\* what running a handler's body does: the exception it raises ({}: none),
\* whether selected_model was assigned and the index searched, the payload
\* given to forward_request ({}: none) and what the body returns ({}: it raised)
Run(raised, selected, retrieved, forwarded, returned) ==
    [raised |-> raised, selected |-> selected, retrieved |-> retrieved,
     forwarded |-> forwarded, returned |-> returned]

\* return await forward_request(target_url, payload): what it returns is
\* the upstream's text and status; what it raises leaves the handler
Forward(payload, upstream, selected, retrieved) ==
    IF upstream = {}
    THEN Run({[error |-> "Exception", status_code |-> 500]}, selected, retrieved, {payload}, {})
    ELSE Run({}, selected, retrieved, {payload},
             {[status |-> CHOOSE status \in upstream : TRUE, body |-> "upstream"]})

\* the rest of a RAG handler once it has its query: RagDriver(), the model
\* name is assigned, the prompt built, the payload rewritten and forwarded
RagRun(prior, chat_model, outcome, rewritten, upstream) ==
    IF AssignmentError(chat_model, prior) # {}
    THEN Run(AssignmentError(chat_model, prior), TRUE, FALSE, {}, {})
    ELSE IF ContextError(outcome) # {}
    THEN Run(ContextError(outcome), TRUE, TRUE, {}, {})
    ELSE Forward(rewritten, upstream, TRUE, TRUE)

\* payload.get('messages', [])
MessagesOf(payload) == IF payload.messages = {} THEN <<>> ELSE CHOOSE l \in payload.messages : TRUE
\* payload.get('prompt'), None and '' both read as ''
PromptOf(payload) == IF payload.prompt = {} THEN <<>> ELSE CHOOSE p \in payload.prompt : TRUE

\* openai.py lines 19-61, on a payload with any of the keys
RagChatRun(payload, prior, outcome, upstream) ==
    LET messages == MessagesOf(payload)
        user_message == FirstUserContent(messages)
        new_prompt == build_prompt(user_message, outcome.contexts)
    IN  IF user_message = <<>> THEN Run({HandlerError}, FALSE, FALSE, {}, {})
        ELSE RagRun(prior, ChatModel(payload), outcome,
                    [payload EXCEPT !.messages = {InjectPrompt(messages, new_prompt)},
                                    !.tokenizerModel = {}],
                    upstream)

\* openai.py lines 78-110
v1_completions_rag(payload, prior, outcome, upstream) ==
    IF PromptOf(payload) = <<>> THEN Run({HandlerError}, FALSE, FALSE, {}, {})
    ELSE RagRun(prior, ChatModel(payload), outcome,
                [payload EXCEPT !.prompt = {build_prompt(PromptOf(payload), outcome.contexts)},
                                !.tokenizerModel = {}],
                upstream)

\* A plausible bug: the direct handler strips the companion's own key too.
ForwardDirectStripped(payload, upstream) ==
    Forward([payload EXCEPT !.tokenizerModel = {}], upstream, FALSE, FALSE)

\* openai.py lines 64-75 and 113-124
ForwardDirect(payload, upstream) == Forward(payload, upstream, FALSE, FALSE)

\* openai.py lines 154-173
v1_retrieve(payload, prior, outcome) ==
    IF PromptOf(payload) = <<>> THEN Run({HandlerError}, FALSE, FALSE, {}, {})
    ELSE IF AssignmentError(payload.model, prior) # {}
    THEN Run(AssignmentError(payload.model, prior), TRUE, FALSE, {}, {})
    ELSE IF ContextError(outcome) # {}
    THEN Run(ContextError(outcome), TRUE, TRUE, {}, {})
    ELSE Run({}, TRUE, TRUE, {}, {[status |-> 200, body |-> "context"]})

HandlerRun(handler, payload, prior, outcome, upstream) ==
    CASE handler = "v1_chat_completion_rag" -> RagChatRun(payload, prior, outcome, upstream)
      [] handler = "v1_completions_rag" -> v1_completions_rag(payload, prior, outcome, upstream)
      [] handler = "v1_retrieve" -> v1_retrieve(payload, prior, outcome)
      [] OTHER -> ForwardDirect(payload, upstream)

\* the subclasses of SiYuanAiCompanionError (errors.py)
CompanionErrors == {"SiYuanApiError", "CompanionEndpointHandlerError", "RagDriverError"}

\* utils.py lines 94-109 around a handler's run: a SiYuanAiCompanionError is
\* answered with {'error': message} and its status_code, any other exception
\* with {'error': ...} and 500
error_handler(run) ==
    IF run.raised = {} THEN CHOOSE returned \in run.returned : TRUE
    ELSE LET e == CHOOSE x \in run.raised : TRUE
         IN  IF e.error \in CompanionErrors
             THEN [status |-> e.status_code, body |-> "json_error"]
             ELSE [status |-> 500, body |-> "json_error"]

\* a handler without @error_handler: the exception reaches the framework,
\* which answers 500 with its own page
Unwrapped(run) ==
    IF run.raised = {} THEN CHOOSE returned \in run.returned : TRUE
    ELSE [status |-> 500, body |-> "internal_server_error"]

\* the query a handler takes from the payload ('' when it has none) and the
\* model name it assigns
HandlerQuery(handler, payload) ==
    IF handler = "v1_chat_completion_rag" THEN FirstUserContent(MessagesOf(payload))
    ELSE PromptOf(payload)
HandlerModel(handler, payload) ==
    IF handler = "v1_retrieve" THEN payload.model ELSE ChatModel(payload)

\* a request for which the handler makes its RagDriver
Retrieves(request) ==
    /\ request.handler \notin DirectHandlers
    /\ HandlerQuery(request.handler, request.payload) # <<>>

\* where the handler of a request ends: in its first step, when the notes
\* are there, or when forward_request ends
HandlerEndsAt(request) ==
    IF request.handler \in DirectHandlers THEN "forwarding"
    ELSE IF ~Retrieves(request) THEN "start"
    ELSE IF AssignmentError(HandlerModel(request.handler, request.payload),
                            request.prior) # {}
    THEN "start"
    ELSE IF ~request.outcome.hits
    THEN IF request.handler = "v1_retrieve" THEN "start" ELSE "forwarding"
    ELSE IF ContextError(request.outcome) # {} \/ request.handler = "v1_retrieve"
    THEN "fetching"
    ELSE "forwarding"

\* the answer to the request, once its handler has ended
HandlerResult ==
    LET run == HandlerRun(handler_request.handler, handler_request.payload,
                          handler_request.prior, handler_request.outcome,
                          handler_request.upstream)
        response == IF HasErrorHandler(handler_request.handler)
                    THEN error_handler(run) ELSE Unwrapped(run)
    IN  [run |-> run, response |-> response]

\* the body of a request is there and its handler runs to its first wait: a
\* direct handler calls forward_request; another one tests the query, makes
\* its RagDriver (and the collection, if there is none), assigns the model
\* name and searches; with hits it waits for the notes, without, it answers
\* (v1_retrieve) or calls forward_request
HandlePayload ==
    /\ handler_pc = "start"
    /\ IF Retrieves(handler_request)
       THEN /\ collection' = RagDriver(collection)
            /\ lastOp' = "construct"
            /\ UNCHANGED <<points, written, nwrites>>
            /\ AssignSelectedModel(HandlerModel(handler_request.handler,
                                                handler_request.payload))
       ELSE UNCHANGED <<indexVars, tokVars>>
    /\ IF HandlerEndsAt(handler_request) = "start"
       THEN handler_result' = {HandlerResult} /\ handler_pc' = "done"
       ELSE /\ handler_pc' = IF Retrieves(handler_request) /\ handler_request.outcome.hits
                             THEN "fetching" ELSE "forwarding"
            /\ UNCHANGED handler_result
    /\ UNCHANGED <<handler_request, segVars, ctxVars, moreVars,
                   sweepVars, promptVars, chatVars, authVars, fwdVars>>

\* the gather of get_context ends: it raises what a fetch raised, or the
\* notes are segmented (the token count reads the tokenizer) and the
\* handler answers (v1_retrieve) or rewrites the payload and calls
\* forward_request
HandlerNotesArrive ==
    /\ handler_pc = "fetching"
    /\ IF ContextError(handler_request.outcome) = {} THEN ReadTokenizer ELSE UNCHANGED tokVars
    /\ IF HandlerEndsAt(handler_request) = "fetching"
       THEN handler_result' = {HandlerResult} /\ handler_pc' = "done"
       ELSE handler_pc' = "forwarding" /\ UNCHANGED handler_result
    /\ UNCHANGED <<handler_request, segVars, ctxVars, moreVars,
                   indexVars, sweepVars, promptVars, chatVars, authVars, fwdVars>>

\* forward_request ends and the handler returns what it returned, or what
\* it raised leaves the handler
HandlerForwarded ==
    /\ handler_pc = "forwarding"
    /\ handler_result' = {HandlerResult}
    /\ handler_pc' = "done"
    /\ UNCHANGED <<handler_request, segVars, ctxVars, tokVars, moreVars,
                   indexVars, sweepVars, promptVars, chatVars, authVars, fwdVars>>

HandlerInit ==
    /\ handler_request \in {r \in [handler : Handlers, payload : HandlerPayloads,
                                    prior : PriorSelections, outcome : Outcomes,
                                    upstream : UpstreamAnswers] :
                               /\ r.handler \in DirectHandlers => r.outcome = NoHits
                               /\ r.handler = "v1_retrieve" => r.upstream = {200}}
    /\ handler_pc = "start"
    /\ handler_result = {}
    /\ IndexMet(handler_request.outcome.hits)
    /\ TokSelected(handler_request.prior)

HandlerIdle ==
    /\ handler_request =
          [handler |-> "v1_retrieve",
           payload |-> [messages |-> {}, prompt |-> {}, model |-> {},
                        tokenizerModel |-> {}, temperature |-> {}],
           prior |-> {}, outcome |-> NoHits, upstream |-> {200}]
    /\ handler_pc = "start"
    /\ handler_result = {}

\* ------------------------------------------------------------------ RagDriver._fallback_split

MaxParagraphs == 3

\* a document is up to MaxParagraphs pieces with a blank line, or a blank line
\* and one more newline, between two; a piece is a paragraph of one or two
\* words, or nothing but a space
SplitPieces == {<<"a">>, <<"a", " ", "b">>, <<"c", " ", "d">>, <<" ">>}
SplitSeparators == {<<"\n", "\n">>, <<"\n", "\n", "\n">>}
SplitDocumentsOf[n \in 1..MaxParagraphs] ==
    IF n = 1 THEN SplitPieces
    ELSE {d \o s \o e : d \in SplitDocumentsOf[n - 1], s \in SplitSeparators, e \in SplitPieces}
SplitDocuments == UNION {SplitDocumentsOf[n] : n \in 1..MaxParagraphs}

\* the token counters and budgets (max_segment_tokens) of the calls
SplitConfigs == {[counter |-> "count", max_segment_tokens |-> 2],
                 [counter |-> "count", max_segment_tokens |-> 3],
                 [counter |-> "count", max_segment_tokens |-> 5],
                 [counter |-> "over", max_segment_tokens |-> 512]}

SplitCfg == [counter |-> split_args.counter, max_segment_tokens |-> split_args.max_segment_tokens]

\* one call of _fallback_split, from entry to return
FallbackSplit ==
    /\ split_result = {}
    /\ split_result' = {fallback_split(SplitCfg, split_args.document)}
    /\ IF Paragraphs(split_args.document) = <<>> THEN UNCHANGED tokVars ELSE ReadTokenizer
    /\ UNCHANGED <<split_args, segVars, ctxVars, handlerVars, reqVars, assetVars,
                   indexVars, sweepVars, promptVars, chatVars, authVars, fwdVars>>

SplitInit ==
    /\ \E cfg \in SplitConfigs, document \in SplitDocuments :
           split_args = [document |-> document, counter |-> cfg.counter,
                         max_segment_tokens |-> cfg.max_segment_tokens]
    /\ split_result = {}

SplitIdle ==
    /\ split_args = [document |-> <<>>, counter |-> "count", max_segment_tokens |-> 512]
    /\ split_result = {}

\* ------------------------------------------------------------------ two RAG requests handled concurrently

Requests == {"r1", "r2"}
\* the tokenizer models the requests name; every one of them can be built
RequestModels == {"gpt-3.5-turbo", "gpt-4", "bert-base-uncased", "llama3"}

\* openai.py lines 48-49 (102-103, 167-168): the handler makes its
\* RagDriver (and the collection, if there is none) and assigns
\* selected_model, then get_context searches and awaits the notes it asked
\* for (rag_driver.py 546-566): the request is suspended
RequestSelects(r) ==
    /\ requests[r].pc = "new"
    /\ collection' = RagDriver(collection)
    /\ lastOp' = "construct"
    /\ AssignSelectedModel({requests[r].model})
    /\ requests' = [requests EXCEPT ![r].pc = "fetching"]
    /\ UNCHANGED <<points, written, nwrites, segVars, ctxVars, handlerVars, splitVars,
                   assetVars, sweepVars, promptVars, chatVars, authVars, fwdVars>>

\* rag_driver.py lines 569-581: the notes have arrived, the documents are
\* segmented, their tokens counted with what the tokenizer property returns
RequestSegments(r) ==
    /\ requests[r].pc = "fetching"
    /\ requests' = [requests EXCEPT ![r].pc = "done", ![r].counted_with = tokenizer]
    /\ ReadTokenizer
    /\ UNCHANGED <<segVars, ctxVars, handlerVars, splitVars, assetVars,
                   indexVars, sweepVars, promptVars, chatVars, authVars, fwdVars>>

ReqInit ==
    /\ requests \in [Requests -> [model : RequestModels, pc : {"new"}, counted_with : {{}}]]

ReqIdle ==
    /\ requests = [r \in Requests |-> [model |-> "gpt-3.5-turbo", pc |-> "idle",
                                       counted_with |-> {}]]

\* ------------------------------------------------------------------ Transcriber.process_asset

Runs == {"t1", "t2"}
AssetPaths == {"assets/a.wav", "assets/b.wav"}
\* t_notebook or APP_CONFIG.siyuan_transcribe_notebook: {} (None) or {id}
Notebooks == {{}, {"nb"}}

\* SiyuanApi.is_processing, add_to_processing, remove_from_processing
is_processing(asset_path) == asset_path \in processing_assets
add_to_processing(asset_path) == processing_assets \cup {asset_path}
remove_from_processing(asset_path) == processing_assets \ {asset_path}

\* transcriber.py lines 228-233: the run returns if the asset is being
\* processed, otherwise it starts the download and is suspended
CheckProcessing(t) ==
    /\ runs[t].pc = "new"
    /\ runs' = [runs EXCEPT ![t].pc =
                    IF is_processing(runs[t].asset) THEN "skipped" ELSE "downloading"]
    /\ UNCHANGED <<processing_assets, tokVars, segVars, ctxVars, handlerVars, splitVars, reqVars,
                   indexVars, sweepVars, promptVars, chatVars, authVars, fwdVars>>

\* lines 233-238: the download has arrived, the asset is added to the
\* processing set and the transcription starts
AddToProcessing(t) ==
    /\ runs[t].pc = "downloading"
    /\ processing_assets' = add_to_processing(runs[t].asset)
    /\ runs' = [runs EXCEPT ![t].pc = "transcribing", ![t].added = TRUE]
    /\ UNCHANGED <<tokVars, segVars, ctxVars, handlerVars, splitVars, reqVars,
                   indexVars, sweepVars, promptVars, chatVars, authVars, fwdVars>>

\* lines 238-252: the transcription returns, the audio block is looked up
Transcribed(t) ==
    /\ runs[t].pc = "transcribing"
    /\ runs' = [runs EXCEPT ![t].pc = "writing"]
    /\ UNCHANGED <<processing_assets, tokVars, segVars, ctxVars, handlerVars, splitVars, reqVars,
                   indexVars, sweepVars, promptVars, chatVars, authVars, fwdVars>>

\* lines 254-269: no notebook, the transcription is inserted into the
\* original note and the run returns
WriteOriginalNote(t) ==
    /\ runs[t].pc = "writing"
    /\ runs[t].notebook = {}
    /\ runs' = [runs EXCEPT ![t].pc = "done"]
    /\ UNCHANGED <<processing_assets, tokVars, segVars, ctxVars, handlerVars, splitVars, reqVars,
                   indexVars, sweepVars, promptVars, chatVars, authVars, fwdVars>>

\* lines 271-291: a note is created in the notebook, then the asset is
\* removed from the processing set
WriteNotebookNote(t) ==
    /\ runs[t].pc = "writing"
    /\ runs[t].notebook # {}
    /\ processing_assets' = remove_from_processing(runs[t].asset)
    /\ runs' = [runs EXCEPT ![t].pc = "done"]
    /\ UNCHANGED <<tokVars, segVars, ctxVars, handlerVars, splitVars, reqVars,
                   indexVars, sweepVars, promptVars, chatVars, authVars, fwdVars>>

\* the download, the transcription or a notes request raises: the exception
\* leaves process_asset, which has no handler for it
RunFails(t) ==
    /\ runs[t].pc \in {"downloading", "transcribing", "writing"}
    /\ runs' = [runs EXCEPT ![t].pc = "failed"]
    /\ UNCHANGED <<processing_assets, tokVars, segVars, ctxVars, handlerVars, splitVars, reqVars,
                   indexVars, sweepVars, promptVars, chatVars, authVars, fwdVars>>

AssetInit ==
    /\ processing_assets = {}
    /\ runs \in [Runs -> [asset : AssetPaths, notebook : Notebooks, pc : {"new"},
                          added : {FALSE}]]

AssetIdle ==
    /\ processing_assets = {}
    /\ runs = [t \in Runs |-> [asset |-> "assets/a.wav", notebook |-> {}, pc |-> "idle",
                               added |-> FALSE]]

MoreIdle == SplitIdle /\ ReqIdle /\ AssetIdle

RagIdle == SegIdle /\ CtxIdle /\ HandlerIdle /\ TokIdle /\ MoreIdle

ProxyIdle == PromptIdle /\ ChatIdle /\ AuthIdle /\ FwdIdle /\ RagIdle

\* ------------------------------------------------------------------ specifications
InitIndex == IndexInit /\ SweepIdle /\ ProxyIdle

NextIndex ==
    \/ AddBlock
    \/ AddBlocks
    \/ UpdateBlock
    \/ UpdateBlocks
    \/ DeleteBlock
    \/ DeleteAll
    \/ Construct
    \/ Search

SpecIndex == InitIndex /\ [][NextIndex]_vars

NextSweep ==
    \/ Startup
    \/ FireJob
    \/ \E s \in Sweeps : CountReturns(s)
    \/ \E s \in Sweeps : QueryFails(s)
    \/ \E s \in Sweeps : SelectReturns(s)
    \/ \E s \in Sweeps : UpdateBlocksFails(s)
    \/ \E s \in Sweeps : UpdateBlocksReturns(s)
    \/ \E s \in Sweeps : WriteCursor(s)
    \/ \E s \in Sweeps : SweepEnds(s)
    \/ Tick
    \/ EditBlock
    \/ CreateBlock

InitSweep == SweepInit /\ ProxyIdle
SpecSweep == InitSweep /\ [][NextSweep]_vars

InitPrompt ==
    /\ PromptInit
    /\ SweepIdle /\ ChatIdle /\ AuthIdle /\ FwdIdle
    /\ SegIdle /\ CtxIdle /\ HandlerIdle /\ MoreIdle
NextPrompt == BuildPromptSearches \/ BuildPrompt
SpecPrompt == InitPrompt /\ [][NextPrompt]_vars

InitChat ==
    /\ ChatInit
    /\ SweepIdle /\ PromptIdle /\ AuthIdle /\ FwdIdle
    /\ SegIdle /\ CtxIdle /\ HandlerIdle /\ MoreIdle
NextChat == ChatCompletionRag \/ ChatPromptBuilt \/ ChatForwarded
SpecChat == InitChat /\ [][NextChat]_vars

InitAuth == IndexInit /\ SweepIdle /\ PromptIdle /\ ChatIdle /\ AuthInit /\ FwdIdle /\ RagIdle
NextAuth == HandleRequest
SpecAuth == InitAuth /\ [][NextAuth]_vars

InitForward == IndexInit /\ SweepIdle /\ PromptIdle /\ ChatIdle /\ AuthIdle /\ FwdInit /\ RagIdle
NextForward ==
    \/ ForwardRequest
    \/ StreamStarts
    \/ UpstreamEmits
    \/ UpstreamCloses
    \/ RelayChunk
    \/ StreamEnds
    \/ ResponseArrives
    \/ RequestTimesOut
    \/ ResponseTimesOut
    \/ FwdTick
SpecForward == InitForward /\ [][NextForward]_vars

InitSegment == IndexInit /\ SweepIdle /\ PromptIdle /\ ChatIdle /\ AuthIdle /\ FwdIdle /\ SegInit /\ CtxIdle /\ HandlerIdle /\ TokIdle /\ MoreIdle
NextSegment == SegmentDocument
SpecSegment == InitSegment /\ [][NextSegment]_vars

NextSegmentCalls == RecursiveCall
SpecSegmentCalls == InitSegment /\ [][NextSegmentCalls]_vars

InitContext == IndexInit /\ SweepIdle /\ PromptIdle /\ ChatIdle /\ AuthIdle /\ FwdIdle /\ SegIdle /\ CtxInit /\ HandlerIdle /\ TokIdle /\ MoreIdle
NextContext == ContextSearch \/ NoteArrives \/ GetContext
SpecContext == InitContext /\ [][NextContext]_vars

InitHandlers ==
    /\ HandlerInit
    /\ SweepIdle /\ PromptIdle /\ ChatIdle /\ AuthIdle /\ FwdIdle
    /\ SegIdle /\ CtxIdle /\ MoreIdle
NextHandlers == HandlePayload \/ HandlerNotesArrive \/ HandlerForwarded
SpecHandlers == InitHandlers /\ [][NextHandlers]_vars

InitFallbackSplit == IndexInit /\ SweepIdle /\ PromptIdle /\ ChatIdle /\ AuthIdle /\ FwdIdle /\ SegIdle /\ CtxIdle /\ HandlerIdle /\ TokIdle /\ SplitInit /\ ReqIdle /\ AssetIdle
NextFallbackSplit == FallbackSplit
SpecFallbackSplit == InitFallbackSplit /\ [][NextFallbackSplit]_vars

InitRequests == IndexInit /\ SweepIdle /\ PromptIdle /\ ChatIdle /\ AuthIdle /\ FwdIdle /\ SegIdle /\ CtxIdle /\ HandlerIdle /\ TokIdle /\ SplitIdle /\ ReqInit /\ AssetIdle
NextRequests ==
    \/ \E r \in Requests : RequestSelects(r)
    \/ \E r \in Requests : RequestSegments(r)
SpecRequests == InitRequests /\ [][NextRequests]_vars

InitTranscribe == IndexInit /\ SweepIdle /\ PromptIdle /\ ChatIdle /\ AuthIdle /\ FwdIdle /\ SegIdle /\ CtxIdle /\ HandlerIdle /\ TokIdle /\ SplitIdle /\ ReqIdle /\ AssetInit
NextTranscribe ==
    \/ \E t \in Runs : CheckProcessing(t)
    \/ \E t \in Runs : AddToProcessing(t)
    \/ \E t \in Runs : Transcribed(t)
    \/ \E t \in Runs : WriteOriginalNote(t)
    \/ \E t \in Runs : WriteNotebookNote(t)
    \/ \E t \in Runs : RunFails(t)
SpecTranscribe == InitTranscribe /\ [][NextTranscribe]_vars

InitTokenizer == IndexInit /\ SweepIdle /\ ProxyIdle
NextTokenizer ==
    \/ SelectModel
    \/ SelectSameModel
    \/ SelectNoModel
    \/ SelectDefaultModel
SpecTokenizer == InitTokenizer /\ [][NextTokenizer]_vars

\* ------------------------------------------------------------------ claims

PointsAt(b) == {q \in points : q.id = HashId(b)}

\* every written block has exactly one point, holding its latest write
C1_OnePointLatestPayload ==
    \A b \in BlockIds :
        written[b] # {} =>
            /\ Cardinality(PointsAt(b)) = 1
            /\ \A q \in PointsAt(b) : written[b] = {q.payload}

\* a write of blocks that are all in the store already adds no point
C1_ReinsertAddsNoPoint ==
    (/\ lastOp' \in {"add_block", "add_blocks", "update_block", "update_blocks"}
     /\ \A b \in BlockIds : written'[b] # written[b] => written[b] # {})
        => Cardinality(points') <= Cardinality(points)

\* C1: after any positive number of add_block / add_blocks / update_block /
\* update_blocks calls carrying block b, in any order with writes to other
\* blocks, the store holds exactly one point with id hash(b) whose payload is
\* {blockId=b, documentId=d, content=c} of the latest write for b, and
\* re-inserting a block never increases the number of points.
C1_IdempotentIndexing ==
    /\ []C1_OnePointLatestPayload
    /\ [][C1_ReinsertAddsNoPoint]_vars

\* C1 witness: block A has been written at least twice, the last time by
\* update_block, with a write to block B in between or before.
C1_Witness ==
    /\ lastOp = "update_block"
    /\ nwrites["A"] >= 2
    /\ nwrites["B"] >= 1
    /\ \E w \in written["A"] : w.content = "updated"
    /\ Cardinality(points) = 2

\* a step that stores a value in last_update is the write of a sweep whose
\* update_blocks has returned, and stores the time that sweep captured
C2_WriteOnlyAfterUpsert ==
    (cursor' # cursor /\ cursor' # {}) =>
        \E s \in Sweeps :
            /\ pc[s] = "write"
            /\ pc'[s] = "closing"
            /\ cursor' = {current_time[s]}

\* the step in which a sweep fails leaves last_update as it is
C2_FailureKeepsCursor ==
    \A s \in Sweeps :
        (pc[s] # "closing_err" /\ pc'[s] = "closing_err") => cursor' = cursor

\* C2: in a sweep the cursor file is written only after the batched
\* embed+upsert has returned; when the notes query, the embedding or the
\* upsert fails, the failing sweep leaves last_update (value or absence)
\* untouched, so the next sweep reads the same window.
C2_CursorOnlyAfterUpsert ==
    [][C2_WriteOnlyAfterUpsert /\ C2_FailureKeepsCursor]_vars

\* C2 witness: a sweep whose update_blocks raised, the cursor still being
\* what the sweep read when it began.
C2_Witness ==
    \E s \in Sweeps :
        /\ pc[s] = "closing_err"
        /\ err[s] \in {"embed", "upsert"}
        /\ sweep_blocks[s] # {}
        /\ ReadCursor(cursor) = last_update[s]

Running(s) == pc[s] \in {"count", "select", "embed", "write", "closing", "closing_err"}

\* C3: at no time are two executions of update_index in progress at once.
C3_AtMostOneSweep ==
    Cardinality({s \in Sweeps : Running(s)}) <= 1

\* C4: every write to last_update stores a value greater than or equal to
\* the value stored before it.
C4_CursorNeverDecreases ==
    [][(cursor' # cursor /\ cursor' # {}) =>
            ReadCursor(cursor') >= ReadCursor(cursor)]_vars

\* block b is not in the index with its current content
Stale(b) ==
    ~ \E q \in points :
        /\ q.id = HashId(b)
        /\ q.payload = [blockId |-> b, documentId |-> kb[b].root_id,
                        content |-> kb[b].content]

\* C5: no block update is permanently skipped: with the cursor at C, every
\* block that is not indexed with its current content has updated > C, so
\* the next sweep's query returns it.
C5_NoUpdateSkipped ==
    cursor # {} =>
        \A b \in DOMAIN kb :
            Stale(b) => TextGreater(kb[b].updated, Strftime(ReadCursor(cursor)))

\* the content of the last message whose role is user
LastUserContent(messages) ==
    LET i == CHOOSE k \in UserIndexes(messages) : \A j \in UserIndexes(messages) : j <= k
    IN  messages[i].content

\* C6: whenever the RAG chat handler builds a prompt, the query is the
\* content of the last user-role message, and the rewritten prompt replaces
\* the content of that same message.
C6_QueryIsLastUserMessage ==
    \A result \in chat_result :
        \A q \in result.query :
            /\ q = LastUserContent(chat_request.payload.messages)
            /\ \A f \in result.forwarded :
                  LastUserContent(f.messages) = build_prompt(q, chat_request.contexts)

\* the text the claim describes: each segment followed by a blank line
RECURSIVE EachThenBlankLine(_)
EachThenBlankLine(texts) ==
    IF texts = <<>> THEN <<>>
    ELSE Head(texts) \o <<"\n", "\n">> \o EachThenBlankLine(Tail(texts))

\* C7: build_prompt returns 'Additional context:\n\n', then each segment
\* followed by '\n\n', then 'Question: ' + query + '\n\nAnswer: \n\n'.
C7_PromptShape ==
    \A prompt \in prompt_result :
        prompt = <<"Additional context:", "\n", "\n">>
                    \o EachThenBlankLine(prompt_args.contexts)
                    \o <<"Question: ">> \o prompt_args.query
                    \o <<"\n", "\n", "Answer: ", "\n", "\n">>

\* C8: with companion_token configured, on every endpoint other than
\* /health and for every Authorization value, the response status is 401
\* if and only if the request does not carry 'Authorization: Bearer <token>'.
C8_AuthGate ==
    \A response \in auth_response :
        (companion_token # {} /\ auth_request.endpoint.path # "/health") =>
            ((response.status = 401) <=>
                (auth_request.header # {<<"Bearer", " ">> \o t : t \in companion_token}))

\* the Authorization values among headers, in order
RECURSIVE AuthorizationOf(_)
AuthorizationOf(headers) ==
    IF headers = <<>> THEN <<>>
    ELSE IF Lower(Head(headers)[1]) = "authorization"
         THEN <<Head(headers)[2]>> \o AuthorizationOf(Tail(headers))
    ELSE AuthorizationOf(Tail(headers))

\* C9: every request forward_request sends upstream carries the
\* Authorization 'Bearer <openai_token>' when an upstream token is
\* configured and none otherwise, whatever Authorization the caller sent.
C9_UpstreamAuthorization ==
    \A u \in upstream_request :
        AuthorizationOf(u.headers) =
            IF openai_token = {} THEN <<>>
            ELSE <<BearerOf(CHOOSE t \in openai_token : TRUE)>>

\* C9 witness: a request was sent upstream for a caller that sent its own
\* Authorization values, with an upstream token configured.
C9_Witness ==
    /\ openai_token # {}
    /\ upstream_request # {}
    /\ Len(AuthorizationOf(fwd_request.headers)) = 2
    /\ fwd_mode = "streaming"

Streamed == WantsStream(fwd_request.payload, fwd_request.method)

\* C10: with stream: true in a POST payload the client receives exactly the
\* chunks the upstream emits, in order, none dropped and each as soon as it
\* is there and not only when the stream ends, in a text/event-stream
\* response: the response ends only once the upstream has ended and every
\* chunk was received, and the 30 s total timeout of the non-streaming path
\* does not apply.
C10_StreamingPassthrough ==
    (Streamed /\ upstream_request # {}) =>
        /\ Len(received) <= Len(sent)
        /\ received = SubSeq(sent, 1, Len(received))
        /\ fwd_mode # "streaming" => (upstream_closed /\ received = sent)
        /\ content_type = {"text/event-stream"}
        /\ fwd_mode # "timed_out"
        /\ (fwd_mode = "streaming" /\ Len(received) < Len(sent)) => ENABLED RelayChunk

\* C11: get_context returns a list with no two equal strings and of length
\* at most 2*limit; every element is a segment the segmenter produced for
\* one of the hit documents, and when the deduplicated segments number at
\* most 2*limit none of them is dropped.
C11_ContextIsTruncatedSet ==
    \A r \in ctx_result, c \in ctx_calls :
        LET context == r.segments
            Produced == Range(c.segments)
        IN  /\ ~r.raised
            /\ \A i, j \in DOMAIN context : context[i] = context[j] => i = j
            /\ Len(context) <= 2 * ctx_args.limit
            /\ Range(context) \subseteq Produced
            /\ Cardinality(Produced) <= 2 * ctx_args.limit => Range(context) = Produced

\* C11 witness: two hit documents gave four segments, two of them equal,
\* and the three different ones were cut to 2*limit = 2.
C11_Witness ==
    /\ ctx_args.limit = 1
    /\ \E r \in ctx_result, c \in ctx_calls :
           /\ Len(c.fetched) = 2
           /\ Len(c.segments) = 4
           /\ Cardinality(Range(c.segments)) = 3
           /\ Len(r.segments) = 2

\* the paragraphs of a document: its texts between blank lines that hold no heading
HasHeading(text) == \E i \in 1..Len(text) : text[i] \in {"#", "##"}
SingleParagraphOf(segment, document) ==
    /\ segment \in Range(Paragraphs(document))
    /\ ~HasHeading(segment)

\* C12: every segment _segment_document returns is within the budget
\* max_segment_tokens, unless it is a single paragraph of the document that
\* alone exceeds the budget; a section of several paragraphs or
\* sub-sections is never returned as one over-budget segment.
C12_SegmentsWithinBudget ==
    \A r \in seg_result :
        \A i \in 1..Len(r.segments) :
            \/ WithinBudget(SegCfg, r.segments[i])
            \/ SingleParagraphOf(r.segments[i], seg_args.document)

\* C13: a matching block that is a substring of the document is a substring
\* of at least one returned segment, whichever path the segmentation takes.
C13_SegmentCoverage ==
    \A r \in seg_result :
        ~r.raised =>
            \A b \in Range(seg_args.matching_blocks) :
                IsSub(b, seg_args.document) =>
                    \E i \in 1..Len(r.segments) : IsSub(b, r.segments[i])

\* an invocation that ends in the paragraph fallback: it finds no heading,
\* or one section and no deeper level to retry
UsesFallback(cfg, call) ==
    /\ call.matching_blocks # <<>>
    /\ ~WithinBudget(cfg, call.document)
    /\ LET tokens == Parse(call.document)
           all_levels == AllLevels(tokens)
       IN  \/ all_levels = {}
           \/ /\ Len(split_by_heading_level(tokens,
                                             SplitLevel(all_levels, call.current_level))) = 1
              /\ \A lvl \in all_levels : lvl <= SplitLevel(all_levels, call.current_level)

\* a recursive call is made with a strictly shorter document, or with the
\* same document and a strictly deeper heading level
C18_CallDescends ==
    \/ Len(seg_call'.document) < Len(seg_call.document)
    \/ /\ seg_call'.document = seg_call.document
       /\ seg_call'.current_level > seg_call.current_level

\* C18: _segment_document terminates for every document, every non-empty
\* matching_blocks and every token counter, one that finds every passage over
\* budget included: each recursive call has a strictly shorter document or the
\* same document and a strictly deeper heading level, so that the chain of
\* calls ends before the depth bound, and an invocation that takes the
\* paragraph fallback makes no recursive call.
C18_SegmentationTerminates ==
    [][seg_depth' > seg_depth =>
          /\ C18_CallDescends
          /\ seg_depth' < MaxDepth
          /\ ~UsesFallback(SegCfg, seg_call)]_vars

\* C18 witness: with a counter that finds everything over budget, the level
\* retry (same document, deeper level) and then the recursion into a section
\* body (shorter document) were both taken, down to the fallback.
C18_Witness ==
    /\ seg_args.counter = "over"
    /\ seg_depth = 2
    /\ seg_call.current_level = 2
    /\ Len(seg_call.document) < Len(seg_args.document)
    /\ UsesFallback(SegCfg, seg_call)

\* C15: every sweep that completes without error, whether the notes client
\* returned updated blocks or none, leaves last_update holding the time
\* captured at the start of that sweep; the file exists after the first
\* successful sweep.
C15_SuccessLeavesCursorAtNow ==
    \A s \in Sweeps : pc[s] = "closing" => cursor = {current_time[s]}

\* C16: a sweep that fails never raises out of the indexer: the error is
\* caught and logged, so that the startup sweep's failure does not reach
\* startup() and the application's startup completes.
C16_FailureStaysInIndexer ==
    \A s \in Sweeps : pc[s] # "failed"

\* C17: for any sequence of selected_model assignments the tokenizer for a
\* given model name is constructed at most once (a name selected earlier is
\* served from the cache), and assigning the selected name constructs nothing.
C17_TokenizerBuiltOnce ==
    \A model_name \in ModelNames : constructed[model_name] <= 1

\* the query of a request: the content of a user message for the chat
\* handler, the prompt for the other two
TakesQuery == {"v1_chat_completion_rag", "v1_completions_rag", "v1_retrieve"}
QueryMissing(handler, payload) ==
    IF handler = "v1_chat_completion_rag"
    THEN \A i \in DOMAIN MessagesOf(payload) :
            MessagesOf(payload)[i].role = "user" => MessagesOf(payload)[i].content = <<>>
    ELSE PromptOf(payload) = <<>>

\* C14: on each endpoint that takes a query (RAG chat completion, RAG raw
\* completion, /direct/v1/retrieve) a request whose query is missing or
\* empty is answered with status 400 and a JSON body {error: <message>}, and
\* no retrieval, tokenizer selection or upstream request is made for it.
C14_MissingQueryIs400 ==
    \A result \in handler_result :
        (/\ handler_request.handler \in TakesQuery
         /\ QueryMissing(handler_request.handler, handler_request.payload)) =>
            /\ result.response = [status |-> 400, body |-> "json_error"]
            /\ ~result.run.retrieved
            /\ ~result.run.selected
            /\ result.run.forwarded = {}

\* C19: whenever a RAG handler fails while building the prompt (a notes-API
\* error with a non-200 status, one reported with HTTP 200 and a non-zero
\* envelope code, a segmentation error, any other exception) the client
\* receives a JSON body {error: <message>} with a status of 400 or above,
\* and nothing is forwarded upstream.
C19_PromptFailureIsErrorStatus ==
    \A result \in handler_result :
        (/\ handler_request.handler \in RagHandlers
         /\ result.run.retrieved
         /\ result.run.raised # {}) =>
            /\ result.response.body = "json_error"
            /\ result.response.status >= 400
            /\ result.run.forwarded = {}

\* the messages of two lists differ at most in the content of one user message
OneUserContentRewritten(before, after) ==
    /\ Len(after) = Len(before)
    /\ \E k \in DOMAIN before :
          /\ before[k].role = "user"
          /\ \A i \in DOMAIN before :
                /\ after[i].role = before[i].role
                /\ i # k => after[i] = before[i]

\* C20: on the direct endpoints the payload sent upstream equals the
\* caller's field for field and nothing is retrieved or selected; on the RAG
\* endpoints it differs from the caller's only in that tokenizerModel is
\* removed and one field is rewritten, prompt or the content of one user
\* message: every other message and every other field is unchanged.
C20_PayloadFrame ==
    \A result \in handler_result :
        LET payload == handler_request.payload
        IN  /\ handler_request.handler \in DirectHandlers =>
                /\ result.run.forwarded = {payload}
                /\ ~result.run.retrieved
                /\ ~result.run.selected
                /\ selected_model = handler_request.prior
                /\ lastOp = "init"
            /\ handler_request.handler \in RagHandlers =>
                \A forwarded \in result.run.forwarded :
                    /\ forwarded.tokenizerModel = {}
                    /\ forwarded.model = payload.model
                    /\ forwarded.temperature = payload.temperature
                    /\ IF handler_request.handler = "v1_completions_rag"
                       THEN /\ forwarded.messages = payload.messages
                            /\ forwarded.prompt # {}
                       ELSE /\ forwarded.prompt = payload.prompt
                            /\ OneUserContentRewritten(MessagesOf(payload),
                                                       MessagesOf(forwarded))

\* C20 witness: a RAG chat request with a system and a user message, a
\* tokenizerModel and another field was forwarded.
C20_Witness ==
    /\ handler_request.handler = "v1_chat_completion_rag"
    /\ handler_request.payload.tokenizerModel # {}
    /\ handler_request.payload.temperature # {}
    /\ Len(MessagesOf(handler_request.payload)) = 2
    /\ MessagesOf(handler_request.payload)[1].role = "system"
    /\ \E result \in handler_result : result.run.forwarded # {}

\* ------------------------------------------------------------------ C21
\* C21: get_blocks_by_time returns every block updated after `since`: whenever
\* a sweep's SELECT is about to run, the LIMIT it carries (the block count its
\* client holds) is at least the number of blocks that match at that moment.
C21_LimitCoversMatches ==
    \A s \in Sweeps :
        pc[s] = "select" /\ LoopFree(s) =>
            \A n \in block_count[s] : n >= Cardinality(UpdatedAfter(last_update[s]))

\* ------------------------------------------------------------------ C30
\* C30: forward_request forwards the request for every combination of
\* configuration and caller headers: no call ends by raising while it
\* prepares the upstream headers.
C30_AlwaysForwarded == fwd_mode # "raised"

\* ------------------------------------------------------------------ C22
\* the paragraphs a chunk is made of
ChunkParagraphs(chunk) == SplitOn(chunk, <<"\n", "\n">>)
RECURSIVE ChunksParagraphs(_)
ChunksParagraphs(chunks) ==
    IF chunks = <<>> THEN <<>>
    ELSE ChunkParagraphs(Head(chunks)) \o ChunksParagraphs(Tail(chunks))

\* C22: _fallback_split partitions the non-empty trimmed paragraphs of the
\* document, in order, into chunks of consecutive paragraphs joined by a blank
\* line: the paragraphs of the chunks, read in order, are those of the
\* document; every chunk is within the budget or is a single paragraph; and a
\* chunk ends only where joining the next paragraph to it would exceed the
\* budget.
C22_FallbackSplitPartitions ==
    \A chunks \in split_result :
        LET budget == split_args.max_segment_tokens
        IN  /\ ChunksParagraphs(chunks) = Paragraphs(split_args.document)
            /\ \A i \in 1..Len(chunks) :
                   \/ estimate_tokens(SplitCfg, chunks[i]) <= budget
                   \/ Len(ChunkParagraphs(chunks[i])) = 1
            /\ \A i \in 1..(Len(chunks) - 1) :
                   estimate_tokens(SplitCfg,
                       chunks[i] \o <<"\n", "\n">> \o Head(ChunkParagraphs(chunks[i + 1])))
                     > budget

\* three paragraphs of two words and a budget of 5: two chunks, the first
\* made of paragraphs 1 and 2, the second of paragraph 3
C22_Witness ==
    /\ split_args = [document |-> <<"a", " ", "b", "\n", "\n", "c", " ", "d", "\n", "\n", "a", " ", "b">>,
                     counter |-> "count", max_segment_tokens |-> 5]
    /\ split_result = {<< <<"a", " ", "b", "\n", "\n", "c", " ", "d">>, <<"a", " ", "b">> >>}

\* ------------------------------------------------------------------ C23
\* the last section a split of the document at level 1 produces
LastSection(document) ==
    LET blocks == split_by_heading_level(Parse(document), 1)
    IN  blocks[Len(blocks)][2]

\* C23: when the level-1 section of a document exceeds the budget and holds
\* the sub-sections H2 (with p2) and H3 (with p3), a matching block p2 yields
\* a segment, no segment that holds p2 holds the text of the sibling
\* sub-section, and such a segment is within budget when the sub-section is.
C23_RecursionSplitsSubSections ==
    \A r \in seg_result :
        /\ seg_args.document \in NestedDocuments
        /\ seg_args.matching_blocks = << <<"p2">> >>
        /\ ~WithinBudget(SegCfg, LastSection(seg_args.document))
        => /\ \E i \in 1..Len(r.segments) : IsSub(<<"p2">>, r.segments[i])
           /\ \A i \in 1..Len(r.segments) :
                  IsSub(<<"p2">>, r.segments[i]) =>
                      /\ ~IsSub(<<"p3">>, r.segments[i])
                      /\ WithinBudget(SegCfg, SubSection("H2", <<"p2">>, <<"\n">>))
                            => WithinBudget(SegCfg, r.segments[i])

\* ------------------------------------------------------------------ C24
PointIds(store) == {q.id : q \in store}

\* C24: after every RagDriver operation the collection exists with the
\* embedder's dimension and the cosine metric; delete_all leaves no point;
\* delete_block(b) removes the point with id hash(b) and no other; and a
\* construction, a search or an upsert (all a sweep or a context request
\* does to the index) removes no point.
C24_CollectionFrame ==
    [][/\ collection' = {[size |-> [dimension_of |-> "all-MiniLM-L6-v2"], distance |-> "Cosine"]}
       /\ lastOp' = "delete_all" => points' = {}
       /\ lastOp' = "delete_block" =>
              \E b \in BlockIds : points' = points \ PointsAt(b)
       /\ lastOp' \in {"construct", "search"} => points' = points
       /\ lastOp' \in {"add_block", "add_blocks", "update_block", "update_blocks"} =>
              PointIds(points) \subseteq PointIds(points')]_vars

\* both blocks were indexed and one was deleted: the other's point is still
\* there, in a collection that exists
C24_Witness ==
    /\ lastOp = "delete_block"
    /\ \E b \in BlockIds : PointsAt(b) # {} /\ nwrites[b] > 0
    /\ \E b \in BlockIds : PointsAt(b) = {} /\ nwrites[b] = 0
    /\ collection # {}

\* ------------------------------------------------------------------ C25
\* the contents of the hits that reference a document, in the hits' order
RECURSIVE ContentsFor(_, _)
ContentsFor(search_results, document_id) ==
    IF search_results = <<>> THEN <<>>
    ELSE (IF Head(search_results).documentId = document_id
          THEN <<Head(search_results).content>> ELSE <<>>)
             \o ContentsFor(Tail(search_results), document_id)

\* C25: the segmenter raises for an empty matching_blocks list whatever the
\* document, and a context request never makes it do so: for a non-empty list
\* of hits it fetches each distinct document id once, and calls the segmenter
\* once per such id, with that document's text and the non-empty list of the
\* contents of the hits that reference it, in whatever order the fetches
\* complete.
C25_SegmenterNeverGetsEmptyList ==
    /\ \A cfg \in Configs, document \in NoteDocuments :
           SegmentResult(cfg, document, <<>>) = {RagDriverError}
    /\ \A c \in ctx_calls :
           LET hits == ctx_args.search_results
               ids == {hits[i].documentId : i \in DOMAIN hits}
           IN  /\ Len(c.fetched) = Cardinality(ids)
               /\ Range(c.fetched) = ids
               /\ ctx_pc = "done" =>
                      /\ Len(c.segmenter) = Cardinality(ids)
                      /\ \A i \in DOMAIN c.segmenter :
                             LET call == c.segmenter[i]
                             IN  /\ call.document_id = c.fetched[i]
                                 /\ call.document = ctx_args.notes[call.document_id]
                                 /\ call.matching_blocks # <<>>
                                 /\ call.matching_blocks = ContentsFor(hits, call.document_id)
                                 /\ RagDriverError \notin
                                        SegmentResult(ContextCfg, call.document,
                                                      call.matching_blocks)

\* two hits in two different documents whose fetches complete in the reverse
\* of the order they were started in
C25_Witness ==
    /\ ctx_pc = "done"
    /\ \E c \in ctx_calls :
           /\ Len(c.segmenter) = 2
           /\ c.completed = <<2, 1>>
           /\ c.segmenter[1].document # c.segmenter[2].document

\* ------------------------------------------------------------------ C26
\* the name the selected_model getter answers
SelectedName == IF selected_model = {} THEN "gpt-3.5-turbo" ELSE CHOOSE n \in selected_model : TRUE

\* the tokenizers that can be built for a name
BuiltFor(model_name) ==
    IF StartsWithGpt(model_name)
    THEN IF Mapped(model_name) THEN {EncodingOf(model_name)} ELSE {}
    ELSE {Loaded(model_name)}

\* C26: in every reachable state the tokenizer property returns a tokenizer,
\* and one built for the selected model name (gpt-3.5-turbo when none is
\* stored): the OpenAI encoding for a name beginning with 'gpt', the hub
\* tokenizer or the BERT fallback otherwise.
C26_TokenizerMatchesSelection ==
    /\ tokenizer # {}
    /\ tokenizer \subseteq BuiltFor(SelectedName)

\* ------------------------------------------------------------------ C27
\* C27: of two requests handled concurrently, each counts the tokens of its
\* segmentation with a tokenizer built for its own model.
C27_OwnTokenizer ==
    \A r \in Requests :
        requests[r].pc = "done" =>
            /\ requests[r].counted_with # {}
            /\ requests[r].counted_with \subseteq BuiltFor(requests[r].model)

\* ------------------------------------------------------------------ C28
Transcribing(t) == runs[t].pc \in {"transcribing", "writing"}

\* C28: for every asset path, at most one process_asset run at a time is
\* past the is_processing check and transcribing that asset.
C28_OneRunPerAsset ==
    \A t, u \in Runs :
        t # u /\ runs[t].asset = runs[u].asset => ~(Transcribing(t) /\ Transcribing(u))

\* ------------------------------------------------------------------ C29
\* C29: an asset is in the processing set only while a run is at work on it:
\* once the runs that added it have ended, by either way of writing the
\* transcription or by an error, it is no longer in the set.
C29_EndedRunLeavesSet ==
    \A asset \in processing_assets :
        \E t \in Runs : runs[t].asset = asset /\ Transcribing(t)

====
